---- MODULE Spec2Model ----
(***************************************************************************)
(* Time-tracking state engine of daily (package state): the session/break  *)
(* lifecycle, the day-boundary normalizer, the aggregation into DayLogs    *)
(* and the TodaySummary projection.                                        *)
(*                                                                         *)
(* Time.  A time.Time is modelled as a number of ticks since local         *)
(* midnight of day 0, in one fixed time zone.  A tick is 1/TicksPerSecond  *)
(* of a second, so that timestamps carry a sub-second part as time.Now()   *)
(* does.  A time.Duration is a (possibly negative) number of ticks.        *)
(* A date key "YYYY-MM-DD" is modelled by the day number.                  *)
(*                                                                         *)
(* Pointers.  A *Session or *time.Time is modelled as a sequence of length *)
(* 0 (nil) or 1 (the value pointed to).  An error is modelled by its       *)
(* message; "" is the nil error.                                           *)
(***************************************************************************)
EXTENDS Integers, Sequences, FiniteSets, TLC

\* ---- bounds of the model -------------------------------------------------
TicksPerSecond == 2
MaxDay == 2
MaxSteps == 3

\* ---- units of the time package -------------------------------------------
SecondsPerMinute == 60
SecondsPerDay == 86400
TicksPerMinute == SecondsPerMinute * TicksPerSecond
TicksPerDay == SecondsPerDay * TicksPerSecond

\* defaultGoalMinutes = 12 * 60
defaultGoalMinutes == 720
defaultBreakIntervalMinutes == 120

\* ---- inputs --------------------------------------------------------------
\* The tick of day d at h:m:sec plus f ticks.
At(d, h, m, sec, f) == d * TicksPerDay + ((h * 60 + m) * 60 + sec) * TicksPerSecond + f

\* Timestamps handed to the operations as `now`: on day 0 09:00:00, 09:50:00,
\* 23:50:00 and 23:59:59 plus one tick (less than a second before midnight);
\* on every later day 00:00:00 and 00:10:00.
Times ==
  { At(0, 9, 0, 0, 0), At(0, 9, 50, 0, 0), At(0, 23, 50, 0, 0), At(0, 23, 59, 59, 1) }
  \cup UNION { { At(d, 0, 0, 0, 0), At(d, 0, 10, 0, 0) } : d \in 1..MaxDay }

\* (tags, note) pairs handed to StartSession.
Labels == { [tags |-> <<>>, note |-> ""], [tags |-> <<"deep">>, note |-> "spec"] }

\* Arguments of `daily set-goal`.
GoalInputs == {0, 8}

\* ---- time.Time / time.Duration -------------------------------------------
\* Go's int(x) of a float64 truncates toward zero.
TruncDiv(a, b) == IF a >= 0 THEN a \div b ELSE -((-a) \div b)

Sub(a, b) == a - b
Seconds(dur) == TruncDiv(dur, TicksPerSecond)
Minutes(dur) == TruncDiv(dur, TicksPerMinute)
\* Variant: a stop at the very instant of the start counts as clock skew.
Before_orEqual(a, b) == a <= b

Before(a, b) == a < b
After(a, b) == a > b

dateKey(t) == t \div TicksPerDay
sameDate(a, b) == (a \div TicksPerDay) = (b \div TicksPerDay)
midnight(t) == (t \div TicksPerDay) * TicksPerDay

\* ---- data ----------------------------------------------------------------
Session(start, end, tags, note) ==
  [Start |-> start, End |-> end, Tags |-> tags, Note |-> note]

defaults ==
  [GoalMinutes |-> defaultGoalMinutes,
   BreakIntervalMinutes |-> defaultBreakIntervalMinutes,
   ActiveSession |-> <<>>,
   ActiveBreak |-> <<>>,
   Days |-> <<>>]

\* s.Days[key] = log
PutDay(days, key, log) ==
  [k \in (DOMAIN days) \cup {key} |-> IF k = key THEN log ELSE days[k]]

dayLog(st, key) ==
  IF key \in DOMAIN st.Days
  THEN st.Days[key]
  ELSE [Date |-> key, Sessions |-> <<>>, TotalWorkMinutes |-> 0,
        TotalWorkSeconds |-> 0, TotalBreakMinutes |-> 0, BreakCount |-> 0,
        GoalMinutes |-> st.GoalMinutes]

ParseGoalMinutes(input) ==
  IF input <= 0 THEN defaultGoalMinutes
  ELSE IF input <= 24 THEN input * 60
  ELSE input

\* ---- Lifecycle Controller ------------------------------------------------
\* Each operation yields the state after the call, the returned int and the
\* returned error.
Result(st, ret, err) == [st |-> st, ret |-> ret, err |-> err]

\* Variant: starting a session also drops a running break.
StartSession_dropsBreak(st, now, tags, note) ==
  IF st.ActiveSession # <<>>
  THEN Result(st, 0, "session already running")
  ELSE Result([st EXCEPT !.ActiveSession = <<Session(now, <<>>, tags, note)>>,
                         !.ActiveBreak = <<>>], 0, "")

\* Variant: a session is refused while a break is running.
StartSession_rejectsOnBreak(st, now, tags, note) ==
  IF st.ActiveSession # <<>>
  THEN Result(st, 0, "session already running")
  ELSE IF st.ActiveBreak # <<>>
  THEN Result(st, 0, "break already running")
  ELSE Result([st EXCEPT !.ActiveSession = <<Session(now, <<>>, tags, note)>>], 0, "")

StartSession(st, now, tags, note) ==
  IF st.ActiveSession # <<>>
  THEN Result(st, 0, "session already running")
  ELSE Result([st EXCEPT !.ActiveSession = <<Session(now, <<>>, tags, note)>>], 0, "")

\* The accumulation of a closed work span of `seconds` seconds into a DayLog:
\* the one-time seeding of TotalWorkSeconds from a minutes-only log, the
\* append, the seconds, the re-derived minutes and the goal snapshot.
\* Variant: the minutes are rounded to the nearest minute instead of floored.
recordWork_roundsMinutes(log, sess, seconds, goal) ==
  LET seeded == IF log.TotalWorkSeconds = 0 /\ log.TotalWorkMinutes > 0
                THEN log.TotalWorkMinutes * 60
                ELSE log.TotalWorkSeconds
      total == seeded + seconds
  IN [log EXCEPT !.Sessions = Append(@, sess),
                 !.TotalWorkSeconds = total,
                 !.TotalWorkMinutes = (total + 30) \div 60,
                 !.GoalMinutes = goal]

\* Variant: the goal snapshot of the log is left as it was.
recordWork_keepsGoal(log, sess, seconds, goal) ==
  LET seeded == IF log.TotalWorkSeconds = 0 /\ log.TotalWorkMinutes > 0
                THEN log.TotalWorkMinutes * 60
                ELSE log.TotalWorkSeconds
      total == seeded + seconds
  IN [log EXCEPT !.Sessions = Append(@, sess),
                 !.TotalWorkSeconds = total,
                 !.TotalWorkMinutes = total \div 60]

\* Variant: a minutes-only log is not seeded before the seconds are added.
recordWork_noSeed(log, sess, seconds, goal) ==
  LET total == log.TotalWorkSeconds + seconds
  IN [log EXCEPT !.Sessions = Append(@, sess),
                 !.TotalWorkSeconds = total,
                 !.TotalWorkMinutes = total \div 60,
                 !.GoalMinutes = goal]

\* Variant: the new span is put in front of the recorded ones.
recordWork_prepends(log, sess, seconds, goal) ==
  LET seeded == IF log.TotalWorkSeconds = 0 /\ log.TotalWorkMinutes > 0
                THEN log.TotalWorkMinutes * 60
                ELSE log.TotalWorkSeconds
      total == seeded + seconds
  IN [log EXCEPT !.Sessions = <<sess>> \o @,
                 !.TotalWorkSeconds = total,
                 !.TotalWorkMinutes = total \div 60,
                 !.GoalMinutes = goal]

recordWork(log, sess, seconds, goal) ==
  LET seeded == IF log.TotalWorkSeconds = 0 /\ log.TotalWorkMinutes > 0
                THEN log.TotalWorkMinutes * 60
                ELSE log.TotalWorkSeconds
      total == seeded + seconds
  IN [log EXCEPT !.Sessions = Append(@, sess),
                 !.TotalWorkSeconds = total,
                 !.TotalWorkMinutes = total \div 60,
                 !.GoalMinutes = goal]

\* Variant: a stop time before the start is accepted.
StopSession_acceptsEarlierNow(st, now) ==
  IF st.ActiveSession = <<>> THEN Result(st, 0, "no active session")
  ELSE
    LET act == st.ActiveSession[1]
        seconds == Seconds(Sub(now, act.Start))
        sess == Session(act.Start, <<now>>, act.Tags, act.Note)
        dayKey == dateKey(now)
        log == recordWork(dayLog(st, dayKey), sess, seconds, st.GoalMinutes)
    IN Result([st EXCEPT !.Days = PutDay(@, dayKey, log),
                         !.ActiveSession = <<>>],
              seconds \div 60, "")

\* Variant: the elapsed seconds are credited to the day twice.
StopSession_creditsTwice(st, now) ==
  IF st.ActiveSession = <<>> THEN Result(st, 0, "no active session")
  ELSE IF Before(now, st.ActiveSession[1].Start)
  THEN Result(st, 0, "stop time is before start time")
  ELSE
    LET act == st.ActiveSession[1]
        seconds == Seconds(Sub(now, act.Start))
        sess == Session(act.Start, <<now>>, act.Tags, act.Note)
        dayKey == dateKey(now)
        log == recordWork(dayLog(st, dayKey), sess, 2 * seconds, st.GoalMinutes)
    IN Result([st EXCEPT !.Days = PutDay(@, dayKey, log),
                         !.ActiveSession = <<>>],
              seconds \div 60, "")

\* Variant: the closed span is credited to the date the session started on.
StopSession_startDate(st, now) ==
  IF st.ActiveSession = <<>> THEN Result(st, 0, "no active session")
  ELSE IF Before(now, st.ActiveSession[1].Start)
  THEN Result(st, 0, "stop time is before start time")
  ELSE
    LET act == st.ActiveSession[1]
        seconds == Seconds(Sub(now, act.Start))
        sess == Session(act.Start, <<now>>, act.Tags, act.Note)
        dayKey == dateKey(act.Start)
        log == recordWork(dayLog(st, dayKey), sess, seconds, st.GoalMinutes)
    IN Result([st EXCEPT !.Days = PutDay(@, dayKey, log),
                         !.ActiveSession = <<>>],
              seconds \div 60, "")

\* Variant: the call returns the day's total minutes, not the session's.
StopSession_returnsDayMinutes(st, now) ==
  IF st.ActiveSession = <<>> THEN Result(st, 0, "no active session")
  ELSE IF Before(now, st.ActiveSession[1].Start)
  THEN Result(st, 0, "stop time is before start time")
  ELSE
    LET act == st.ActiveSession[1]
        seconds == Seconds(Sub(now, act.Start))
        sess == Session(act.Start, <<now>>, act.Tags, act.Note)
        dayKey == dateKey(now)
        log == recordWork(dayLog(st, dayKey), sess, seconds, st.GoalMinutes)
    IN Result([st EXCEPT !.Days = PutDay(@, dayKey, log),
                         !.ActiveSession = <<>>],
              log.TotalWorkMinutes, "")

StopSession(st, now) ==
  IF st.ActiveSession = <<>> THEN Result(st, 0, "no active session")
  ELSE IF Before(now, st.ActiveSession[1].Start)
  THEN Result(st, 0, "stop time is before start time")
  ELSE
    LET act == st.ActiveSession[1]
        seconds == Seconds(Sub(now, act.Start))
        sess == Session(act.Start, <<now>>, act.Tags, act.Note)
        dayKey == dateKey(now)
        log == recordWork(dayLog(st, dayKey), sess, seconds, st.GoalMinutes)
    IN Result([st EXCEPT !.Days = PutDay(@, dayKey, log),
                         !.ActiveSession = <<>>],
              seconds \div 60, "")

\* Variant: the break is set before the implicit stop is attempted, and stays
\* when the stop is refused.
StartBreak_breakBeforeStop(st, now) ==
  IF st.ActiveBreak # <<>> THEN Result(st, 0, "break already running")
  ELSE
    LET begun == [st EXCEPT !.ActiveBreak = <<Session(now, <<>>, <<>>, "")>>]
        stopped == IF st.ActiveSession # <<>>
                   THEN StopSession(begun, now)
                   ELSE Result(begun, 0, "")
    IN Result(stopped.st, 0, stopped.err)

\* Variant: the break begins without the running session being stopped.
StartBreak_keepsSession(st, now) ==
  IF st.ActiveBreak # <<>> THEN Result(st, 0, "break already running")
  ELSE Result([st EXCEPT !.ActiveBreak = <<Session(now, <<>>, <<>>, "")>>], 0, "")

\* Variant: a running break is silently restarted.
StartBreak_restarts(st, now) ==
  LET stopped == IF st.ActiveSession # <<>>
                 THEN StopSession(st, now)
                 ELSE Result(st, 0, "")
  IN IF stopped.err # ""
     THEN Result(stopped.st, 0, stopped.err)
     ELSE Result([stopped.st EXCEPT !.ActiveBreak = <<Session(now, <<>>, <<>>, "")>>],
                 0, "")

StartBreak(st, now) ==
  IF st.ActiveBreak # <<>> THEN Result(st, 0, "break already running")
  ELSE
    LET stopped == IF st.ActiveSession # <<>>
                   THEN StopSession(st, now)
                   ELSE Result(st, 0, "")
    IN IF stopped.err # ""
       THEN Result(stopped.st, 0, stopped.err)
       ELSE Result([stopped.st EXCEPT !.ActiveBreak = <<Session(now, <<>>, <<>>, "")>>],
                   0, "")

\* Variant: a break shorter than a minute is not counted, as in addBreakSpan.
StopBreak_skipsZero(st, now) ==
  IF st.ActiveBreak = <<>> THEN Result(st, 0, "no active break")
  ELSE IF Before(now, st.ActiveBreak[1].Start)
  THEN Result(st, 0, "break end before start")
  ELSE
    LET minutes == Minutes(Sub(now, st.ActiveBreak[1].Start))
        dayKey == dateKey(now)
        log == dayLog(st, dayKey)
        log2 == [log EXCEPT !.BreakCount = IF minutes > 0 THEN @ + 1 ELSE @,
                            !.TotalBreakMinutes = @ + minutes]
    IN Result([st EXCEPT !.Days = PutDay(@, dayKey, log2),
                         !.ActiveBreak = <<>>],
              minutes, "")

StopBreak(st, now) ==
  IF st.ActiveBreak = <<>> THEN Result(st, 0, "no active break")
  ELSE IF Before(now, st.ActiveBreak[1].Start)
  THEN Result(st, 0, "break end before start")
  ELSE
    LET minutes == Minutes(Sub(now, st.ActiveBreak[1].Start))
        dayKey == dateKey(now)
        log == dayLog(st, dayKey)
        log2 == [log EXCEPT !.BreakCount = @ + 1,
                            !.TotalBreakMinutes = @ + minutes]
    IN Result([st EXCEPT !.Days = PutDay(@, dayKey, log2),
                         !.ActiveBreak = <<>>],
              minutes, "")

\* ---- Projection ----------------------------------------------------------
\* Variant: the minutes of a running break are counted as work as well.
TodaySummary_countsBreak(st, now) ==
  LET stored == IF dateKey(now) \in DOMAIN st.Days
                THEN st.Days[dateKey(now)].TotalWorkMinutes ELSE 0
      activeMinutes == IF st.ActiveSession # <<>>
                       THEN Minutes(Sub(now, st.ActiveSession[1].Start))
                       ELSE 0
      breakMinutes == IF st.ActiveBreak # <<>>
                      THEN Minutes(Sub(now, st.ActiveBreak[1].Start))
                      ELSE 0
  IN <<stored + activeMinutes + breakMinutes, activeMinutes>>

\* <<workMinutes, activeMinutes>>
TodaySummary(st, now) ==
  LET stored == IF dateKey(now) \in DOMAIN st.Days
                THEN st.Days[dateKey(now)].TotalWorkMinutes ELSE 0
      activeMinutes == IF st.ActiveSession # <<>>
                       THEN Minutes(Sub(now, st.ActiveSession[1].Start))
                       ELSE 0
  IN <<stored + activeMinutes, activeMinutes>>

\* ---- Aggregator ----------------------------------------------------------
\* Variant: the split span is credited to the date it ends on.
addWorkSpan_endDate(st, start, end, tags, note) ==
  LET seconds == Seconds(Sub(end, start))
  IN IF seconds <= 0 THEN st
     ELSE
       LET dayKey == dateKey(end)
           log == recordWork(dayLog(st, dayKey), Session(start, <<end>>, tags, note),
                             seconds, st.GoalMinutes)
       IN [st EXCEPT !.Days = PutDay(@, dayKey, log)]

addWorkSpan(st, start, end, tags, note) ==
  LET seconds == Seconds(Sub(end, start))
  IN IF seconds <= 0 THEN st
     ELSE
       LET dayKey == dateKey(start)
           log == recordWork(dayLog(st, dayKey), Session(start, <<end>>, tags, note),
                             seconds, st.GoalMinutes)
       IN [st EXCEPT !.Days = PutDay(@, dayKey, log)]

\* Variant: a split break shorter than a minute is counted, as in StopBreak.
addBreakSpan_countsZero(st, start, end) ==
  LET minutes == Minutes(Sub(end, start))
      dayKey == dateKey(start)
      log == dayLog(st, dayKey)
      log2 == [log EXCEPT !.TotalBreakMinutes = @ + minutes,
                          !.BreakCount = @ + 1]
  IN [st EXCEPT !.Days = PutDay(@, dayKey, log2)]

addBreakSpan(st, start, end) ==
  LET minutes == Minutes(Sub(end, start))
  IN IF minutes <= 0 THEN st
     ELSE
       LET dayKey == dateKey(start)
           log == dayLog(st, dayKey)
           log2 == [log EXCEPT !.TotalBreakMinutes = @ + minutes,
                               !.BreakCount = @ + 1]
       IN [st EXCEPT !.Days = PutDay(@, dayKey, log2)]

\* ---- Day Normalizer ------------------------------------------------------
\* Variant: the start is moved to midnight and the time before it is dropped.
normalizeSession_dropsSpan(st, now) ==
  IF st.ActiveSession # <<>> /\ ~sameDate(st.ActiveSession[1].Start, now)
  THEN LET act == st.ActiveSession[1]
           mid == midnight(now)
       IN IF After(mid, act.Start)
          THEN [st EXCEPT !.ActiveSession[1].Start = mid]
          ELSE st
  ELSE st

\* Variant: the split span is recorded but the active start is not rewritten.
normalizeSession_noRewrite(st, now) ==
  IF st.ActiveSession # <<>> /\ ~sameDate(st.ActiveSession[1].Start, now)
  THEN LET act == st.ActiveSession[1]
           mid == midnight(now)
       IN IF After(mid, act.Start)
          THEN IF Sub(mid, act.Start) > 0
               THEN addWorkSpan(st, act.Start, mid, act.Tags, act.Note)
               ELSE st
          ELSE st
  ELSE st

\* Variant: the split is made at the first midnight after the start, one day
\* boundary per call.
normalizeSession_oneDay(st, now) ==
  IF st.ActiveSession # <<>> /\ ~sameDate(st.ActiveSession[1].Start, now)
  THEN LET act == st.ActiveSession[1]
           mid == midnight(act.Start) + TicksPerDay
       IN IF After(midnight(now), act.Start)
          THEN LET added == IF Sub(mid, act.Start) > 0
                            THEN addWorkSpan(st, act.Start, mid, act.Tags, act.Note)
                            ELSE st
               IN [added EXCEPT !.ActiveSession[1].Start = mid]
          ELSE st
  ELSE st

normalizeSession(st, now) ==
  IF st.ActiveSession # <<>> /\ ~sameDate(st.ActiveSession[1].Start, now)
  THEN LET act == st.ActiveSession[1]
           mid == midnight(now)
       IN IF After(mid, act.Start)
          THEN LET added == IF Sub(mid, act.Start) > 0
                            THEN addWorkSpan(st, act.Start, mid, act.Tags, act.Note)
                            ELSE st
               IN [added EXCEPT !.ActiveSession[1].Start = mid]
          ELSE st
  ELSE st

\* Variant: the break that crossed midnight is recorded and ended.
normalizeBreak_endsBreak(st, now) ==
  IF st.ActiveBreak # <<>> /\ ~sameDate(st.ActiveBreak[1].Start, now)
  THEN LET act == st.ActiveBreak[1]
           mid == midnight(now)
       IN IF After(mid, act.Start)
          THEN LET added == IF Sub(mid, act.Start) > 0
                            THEN addBreakSpan(st, act.Start, mid)
                            ELSE st
               IN [added EXCEPT !.ActiveBreak = <<>>]
          ELSE st
  ELSE st

normalizeBreak(st, now) ==
  IF st.ActiveBreak # <<>> /\ ~sameDate(st.ActiveBreak[1].Start, now)
  THEN LET act == st.ActiveBreak[1]
           mid == midnight(now)
       IN IF After(mid, act.Start)
          THEN LET added == IF Sub(mid, act.Start) > 0
                            THEN addBreakSpan(st, act.Start, mid)
                            ELSE st
               IN [added EXCEPT !.ActiveBreak[1].Start = mid]
          ELSE st
  ELSE st

Normalize(st, now) == normalizeBreak(normalizeSession(st, now), now)

\* ---- the state machine ---------------------------------------------------
VARIABLES
  s,      \* the *State every operation is called on; the persisted document
          \* where whole load-mutate-save cycles are modelled
  last,   \* the last call: operation, its arguments, returned int, returned error
  steps,  \* number of calls made so far
  acc,    \* sum of the minutes returned by the StopSession calls so far
  dash,   \* the dashboard model: the summary of its last reload
  disk,   \* the state file and its temporary file
  saver   \* per process: its position in Save and the document it saves

vars == <<s, last, steps, acc, dash, disk, saver>>

\* Processes that load and save the state file.
Procs == {"cli", "watch"}

Call(op, now, tags, note, ret, err) ==
  [op |-> op, now |-> now, tags |-> tags, note |-> note, ret |-> ret, err |-> err]

\* Nothing on disk, nobody saving, no dashboard reload with a break yet.
InitRest ==
  /\ acc = [returned |-> 0]
  /\ dash = [onBreak |-> FALSE, err |-> ""]
  /\ disk = [dest |-> <<>>, tmp |-> <<>>]
  /\ saver = [p \in Procs |-> [pc |-> "idle", doc |-> defaults]]

Init ==
  /\ s = defaults
  /\ last = Call("defaults", 0, <<>>, "", 0, "")
  /\ steps = 0
  /\ InitRest

Apply(op, now, tags, note, r) ==
  /\ steps < MaxSteps
  /\ s' = r.st
  /\ last' = Call(op, now, tags, note, r.ret, r.err)
  /\ steps' = steps + 1
  /\ UNCHANGED <<acc, dash, disk, saver>>

DoStartSession ==
  \E now \in Times, l \in Labels :
    Apply("StartSession", now, l.tags, l.note, StartSession(s, now, l.tags, l.note))

DoStopSession ==
  \E now \in Times : Apply("StopSession", now, <<>>, "", StopSession(s, now))

DoStartBreak ==
  \E now \in Times : Apply("StartBreak", now, <<>>, "", StartBreak(s, now))

DoStopBreak ==
  \E now \in Times : Apply("StopBreak", now, <<>>, "", StopBreak(s, now))

DoNormalize ==
  \E now \in Times : Apply("Normalize", now, <<>>, "", Result(Normalize(s, now), 0, ""))

\* `daily set-goal N`: st.GoalMinutes = state.ParseGoalMinutes(N)
DoSetGoal ==
  \E input \in GoalInputs :
    Apply("SetGoal", 0, <<>>, "", Result([s EXCEPT !.GoalMinutes = ParseGoalMinutes(input)], 0, ""))

Next ==
  \/ DoStartSession
  \/ DoStopSession
  \/ DoStartBreak
  \/ DoStopBreak
  \/ DoNormalize
  \/ DoSetGoal

Spec == Init /\ [][Next]_vars

\* ==== properties of the engine ============================================
\* The definitions below state the expected effect of each operation in terms
\* of the state before (s) and after (s') the call recorded in last'.

OldSessions(key) == IF key \in DOMAIN s.Days THEN s.Days[key].Sessions ELSE <<>>
OldWorkSeconds(key) == IF key \in DOMAIN s.Days THEN s.Days[key].TotalWorkSeconds ELSE 0
OldWorkMinutes(key) == IF key \in DOMAIN s.Days THEN s.Days[key].TotalWorkMinutes ELSE 0
OldBreakMinutes(key) == IF key \in DOMAIN s.Days THEN s.Days[key].TotalBreakMinutes ELSE 0
OldBreakCount(key) == IF key \in DOMAIN s.Days THEN s.Days[key].BreakCount ELSE 0

\* C1: StopSession(now) with an active session and now >= start appends one
\* closed span (the active session's start, tags and note, end = now) to the
\* DayLog of now's date, adds the elapsed whole seconds to its
\* TotalWorkSeconds, re-derives TotalWorkMinutes as the floor of the seconds
\* over 60, clears ActiveSession and returns the floor of the elapsed seconds
\* over 60; 09:00 to 09:50 on an empty day returns 50 and leaves 50 minutes and
\* 3000 seconds.
C1_StopSessionRecords ==
  [][ (last'.op = "StopSession" /\ s.ActiveSession # <<>>
         /\ last'.now >= s.ActiveSession[1].Start) =>
      LET now == last'.now
          act == s.ActiveSession[1]
          key == now \div TicksPerDay
          elapsed == (now - act.Start) \div TicksPerSecond
      IN /\ last'.err = ""
         /\ last'.ret = elapsed \div 60
         /\ key \in DOMAIN s'.Days
         /\ s'.Days[key].Sessions =
              Append(OldSessions(key),
                     [Start |-> act.Start, End |-> <<now>>, Tags |-> act.Tags, Note |-> act.Note])
         /\ s'.Days[key].TotalWorkSeconds = OldWorkSeconds(key) + elapsed
         /\ s'.Days[key].TotalWorkMinutes = (OldWorkSeconds(key) + elapsed) \div 60
         /\ s'.ActiveSession = <<>>
         /\ (act.Start = At(0, 9, 0, 0, 0) /\ now = At(0, 9, 50, 0, 0) /\ 0 \notin DOMAIN s.Days) =>
              /\ last'.ret = 50
              /\ s'.Days[0].TotalWorkMinutes = 50
              /\ s'.Days[0].TotalWorkSeconds = 3000
    ]_vars

\* A session started at 09:00 of day 0 has been stopped at 09:50 of day 0.
C1_Witness ==
  /\ last.op = "StopSession" /\ last.err = "" /\ last.ret = 50
  /\ last.now = At(0, 9, 50, 0, 0)
  /\ 0 \in DOMAIN s.Days
  /\ Len(s.Days[0].Sessions) = 1
  /\ s.Days[0].Sessions[1].Start = At(0, 9, 0, 0, 0)
  /\ s.Days[0].Sessions[1].End = <<At(0, 9, 50, 0, 0)>>
  /\ s.Days[0].TotalWorkMinutes = 50
  /\ s.Days[0].TotalWorkSeconds = 3000
  /\ s.ActiveSession = <<>>

\* C2: StartSession(now, tags, note) fails with the already-running error if
\* and only if ActiveSession is set; when it succeeds ActiveSession is a
\* running span with start = now and the given tags and note, and nothing else
\* of the state changes.
C2_StartSession ==
  [][ last'.op = "StartSession" =>
      /\ (last'.err = "session already running") <=> (s.ActiveSession # <<>>)
      /\ (last'.err # "") <=> (s.ActiveSession # <<>>)
      /\ last'.err = "" =>
           /\ s'.ActiveSession =
                << [Start |-> last'.now, End |-> <<>>, Tags |-> last'.tags, Note |-> last'.note] >>
           /\ s'.ActiveBreak = s.ActiveBreak
           /\ s'.Days = s.Days
           /\ s'.GoalMinutes = s.GoalMinutes
           /\ s'.BreakIntervalMinutes = s.BreakIntervalMinutes
    ]_vars

\* A session with tags and a note has been started while a break was running
\* and a day was already on record.
C2_Witness ==
  /\ last.op = "StartSession" /\ last.err = ""
  /\ s.ActiveSession # <<>>
  /\ s.ActiveSession[1].Start = last.now
  /\ s.ActiveSession[1].Tags = <<"deep">>
  /\ s.ActiveSession[1].Note = "spec"
  /\ s.ActiveBreak # <<>>
  /\ DOMAIN s.Days # {}

\* C3: StopSession fails with the no-active-session error when ActiveSession
\* is unset and StopBreak with the no-active-break error when ActiveBreak is
\* unset; each fails with its clock-skew error for every now < start and
\* succeeds for every now >= start, now = start included.
C3_StopErrors ==
  [][ /\ last'.op = "StopSession" =>
           last'.err = IF s.ActiveSession = <<>> THEN "no active session"
                       ELSE IF last'.now < s.ActiveSession[1].Start
                            THEN "stop time is before start time"
                            ELSE ""
      /\ last'.op = "StopBreak" =>
           last'.err = IF s.ActiveBreak = <<>> THEN "no active break"
                       ELSE IF last'.now < s.ActiveBreak[1].Start
                            THEN "break end before start"
                            ELSE ""
    ]_vars

\* A stop of the break has been refused for clock skew: the break is still
\* running and starts after the stop's now.
C3_Witness ==
  /\ last.op = "StopBreak" /\ last.err = "break end before start"
  /\ s.ActiveBreak # <<>>
  /\ last.now < s.ActiveBreak[1].Start

\* The effects of a successful StopSession(last'.now) on the DayLog of now's
\* date, with the goal snapshot, and on ActiveSession.
StopSessionEffects ==
  LET now == last'.now
      act == s.ActiveSession[1]
      key == now \div TicksPerDay
      elapsed == (now - act.Start) \div TicksPerSecond
  IN /\ key \in DOMAIN s'.Days
     /\ s'.Days[key].Sessions =
          Append(OldSessions(key),
                 [Start |-> act.Start, End |-> <<now>>, Tags |-> act.Tags, Note |-> act.Note])
     /\ s'.Days[key].TotalWorkSeconds = OldWorkSeconds(key) + elapsed
     /\ s'.Days[key].TotalWorkMinutes = (OldWorkSeconds(key) + elapsed) \div 60
     /\ s'.Days[key].GoalMinutes = s.GoalMinutes
     /\ s'.ActiveSession = <<>>

BreakBegins ==
  s'.ActiveBreak = << [Start |-> last'.now, End |-> <<>>, Tags |-> <<>>, Note |-> ""] >>

\* C4 as stated: StartBreak(now) called while a session is active and no break
\* is active applies the full StopSession(now) effects and then sets
\* ActiveBreak to a span starting at now with no tags or note; afterwards
\* ActiveSession is unset and ActiveBreak is set.
C4_AsStated ==
  [][ (last'.op = "StartBreak" /\ s.ActiveSession # <<>> /\ s.ActiveBreak = <<>>) =>
      /\ StopSessionEffects
      /\ BreakBegins
    ]_vars

\* C4 (amended): StartBreak(now) called while a session is active and no break
\* is active, with now >= the session's start, applies the full
\* StopSession(now) effects and then sets ActiveBreak to a span starting at now
\* with no tags or note, leaving ActiveSession unset and ActiveBreak set; with
\* now < the session's start it returns the clock-skew error of StopSession
\* and changes nothing, the session staying active and no break beginning.
C4_StartBreakStopsSession ==
  [][ (last'.op = "StartBreak" /\ s.ActiveSession # <<>> /\ s.ActiveBreak = <<>>) =>
      IF last'.now >= s.ActiveSession[1].Start
      THEN /\ last'.err = ""
           /\ StopSessionEffects
           /\ BreakBegins
      ELSE /\ last'.err = "stop time is before start time"
           /\ s' = s
    ]_vars

\* A break has begun by StartBreak on a running session: the session is on
\* record as a closed span ending at the break's start.
C4_Witness ==
  /\ last.op = "StartBreak" /\ last.err = ""
  /\ s.ActiveSession = <<>>
  /\ s.ActiveBreak # <<>>
  /\ s.ActiveBreak[1].Start = last.now
  /\ \E k \in DOMAIN s.Days :
       /\ Len(s.Days[k].Sessions) = 1
       /\ s.Days[k].Sessions[1].End = <<last.now>>
       /\ s.Days[k].Sessions[1].Start < last.now
       /\ s.Days[k].TotalWorkSeconds > 0

\* C5: StartBreak(now) fails with the already-on-break error if and only if
\* ActiveBreak is set, in every state and for every now.
C5_StartBreakAlreadyOnBreak ==
  [][ last'.op = "StartBreak" =>
      (last'.err = "break already running") <=> (s.ActiveBreak # <<>>)
    ]_vars

\* StartBreak has been refused while a break and a session were both running.
C5_Witness ==
  /\ last.op = "StartBreak" /\ last.err = "break already running"
  /\ s.ActiveBreak # <<>>
  /\ s.ActiveSession # <<>>

\* C6: StopBreak(now) with an active break and now >= start computes
\* minutes = floor((now - start) / 60 s), adds it to TotalBreakMinutes and
\* adds exactly 1 to BreakCount of the DayLog of now's date, also when
\* minutes = 0, clears ActiveBreak, returns minutes, and leaves that log's
\* Sessions, TotalWorkSeconds and TotalWorkMinutes and the ActiveSession
\* unchanged.
C6_StopBreakRecords ==
  [][ (last'.op = "StopBreak" /\ s.ActiveBreak # <<>>
         /\ last'.now >= s.ActiveBreak[1].Start) =>
      LET now == last'.now
          key == now \div TicksPerDay
          minutes == (now - s.ActiveBreak[1].Start) \div (60 * TicksPerSecond)
      IN /\ last'.err = ""
         /\ last'.ret = minutes
         /\ key \in DOMAIN s'.Days
         /\ s'.Days[key].TotalBreakMinutes = OldBreakMinutes(key) + minutes
         /\ s'.Days[key].BreakCount = OldBreakCount(key) + 1
         /\ s'.Days[key].Sessions = OldSessions(key)
         /\ s'.Days[key].TotalWorkSeconds = OldWorkSeconds(key)
         /\ s'.Days[key].TotalWorkMinutes = OldWorkMinutes(key)
         /\ s'.ActiveBreak = <<>>
         /\ s'.ActiveSession = s.ActiveSession
    ]_vars

\* A break of less than a minute has been stopped and counted, on a day that
\* has a work span on record.
C6_Witness ==
  /\ last.op = "StopBreak" /\ last.err = "" /\ last.ret = 0
  /\ s.ActiveBreak = <<>>
  /\ \E k \in DOMAIN s.Days :
       /\ k = last.now \div TicksPerDay
       /\ s.Days[k].BreakCount = 1
       /\ s.Days[k].TotalBreakMinutes = 0
       /\ Len(s.Days[k].Sessions) = 1

\* C7: in every state reachable from the default state by StartSession,
\* StopSession, StartBreak, StopBreak and Normalize calls with any timestamps,
\* every DayLog has TotalWorkMinutes = floor(TotalWorkSeconds / 60).
C7_MinutesDerivedFromSeconds ==
  \A k \in DOMAIN s.Days :
    s.Days[k].TotalWorkMinutes = s.Days[k].TotalWorkSeconds \div 60

\* A DayLog holds work time that is not a whole number of minutes.
C7_Witness ==
  \E k \in DOMAIN s.Days :
    /\ s.Days[k].TotalWorkSeconds % 60 = 59
    /\ s.Days[k].TotalWorkMinutes > 0
    /\ Len(s.Days[k].Sessions) >= 1

NewSessions(key) == IF key \in DOMAIN s'.Days THEN s'.Days[key].Sessions ELSE <<>>
NewWorkSeconds(key) == IF key \in DOMAIN s'.Days THEN s'.Days[key].TotalWorkSeconds ELSE 0
NewBreakMinutes(key) == IF key \in DOMAIN s'.Days THEN s'.Days[key].TotalBreakMinutes ELSE 0
NewBreakCount(key) == IF key \in DOMAIN s'.Days THEN s'.Days[key].BreakCount ELSE 0

\* Normalize(last'.now) has split the active session at midnight of now's
\* date: the closed span [start, midnight) is appended to the start date's
\* DayLog and its seconds are added there.
SessionSplitRecorded ==
  LET act == s.ActiveSession[1]
      mid == (last'.now \div TicksPerDay) * TicksPerDay
      key == act.Start \div TicksPerDay
  IN /\ NewSessions(key) =
          Append(OldSessions(key),
                 [Start |-> act.Start, End |-> <<mid>>, Tags |-> act.Tags, Note |-> act.Note])
     /\ NewWorkSeconds(key) = OldWorkSeconds(key) + (mid - act.Start) \div TicksPerSecond

\* Normalize(last'.now) has rewritten the active session's start to midnight
\* of now's date, and TodaySummary(now) right after it counts the minutes
\* since that midnight as active work on top of today's stored minutes.
SessionRebased ==
  LET now == last'.now
      mid == (now \div TicksPerDay) * TicksPerDay
      today == now \div TicksPerDay
      stored == IF today \in DOMAIN s'.Days THEN s'.Days[today].TotalWorkMinutes ELSE 0
  IN /\ s'.ActiveSession = << [s.ActiveSession[1] EXCEPT !.Start = mid] >>
     /\ TodaySummary(s', now) =
          << stored + (now - mid) \div (60 * TicksPerSecond), (now - mid) \div (60 * TicksPerSecond) >>

StartedTheDayBefore ==
  /\ last'.op = "Normalize"
  /\ s.ActiveSession # <<>>
  /\ s.ActiveSession[1].Start \div TicksPerDay + 1 = last'.now \div TicksPerDay

\* C8 as stated: for an active session started on the calendar day before
\* now's date, Normalize(now) appends the closed span [start, midnight of now's
\* date) to the start date's DayLog and adds its seconds there, rewrites the
\* active session's start to that midnight, and TodaySummary(now) right after
\* counts only the minutes since midnight as active work.
C8_AsStated ==
  [][ StartedTheDayBefore => (SessionSplitRecorded /\ SessionRebased) ]_vars

\* C8 (amended): for an active session started on the calendar day before
\* now's date, Normalize(now) rewrites the active session's start to midnight
\* of now's date and TodaySummary(now) right after counts only the minutes
\* since midnight as active work; when at least one whole second lies between
\* the start and that midnight it appends the closed span [start, midnight) to
\* the start date's DayLog and adds its whole seconds there, and when less
\* than a second does it appends no span and adds no seconds.  Start 23:50,
\* Normalize at 00:10 the next day: yesterday gains a 10-minute span and
\* TodaySummary reports 10 minutes.
C8_NormalizeSplitsAtMidnight ==
  [][ StartedTheDayBefore =>
      LET act == s.ActiveSession[1]
          mid == (last'.now \div TicksPerDay) * TicksPerDay
          key == act.Start \div TicksPerDay
      IN /\ SessionRebased
         /\ IF mid - act.Start >= TicksPerSecond
            THEN SessionSplitRecorded
            ELSE /\ NewSessions(key) = OldSessions(key)
                 /\ NewWorkSeconds(key) = OldWorkSeconds(key)
         /\ (act.Start = At(0, 23, 50, 0, 0) /\ last'.now = At(1, 0, 10, 0, 0)
               /\ s.Days = <<>>) =>
              /\ Len(s'.Days[0].Sessions) = 1
              /\ s'.Days[0].TotalWorkMinutes = 10
              /\ TodaySummary(s', last'.now) = <<10, 10>>
    ]_vars

\* A session running since 23:50 of day 0 has been normalized at 00:10 of
\* day 1.
C8_Witness ==
  /\ last.op = "Normalize" /\ last.now = At(1, 0, 10, 0, 0)
  /\ s.ActiveSession # <<>>
  /\ s.ActiveSession[1].Start = At(1, 0, 0, 0, 0)
  /\ DOMAIN s.Days = {0}
  /\ Len(s.Days[0].Sessions) = 1
  /\ s.Days[0].Sessions[1].Start = At(0, 23, 50, 0, 0)
  /\ s.Days[0].Sessions[1].End = <<At(1, 0, 0, 0, 0)>>
  /\ s.Days[0].TotalWorkSeconds = 600
  /\ s.Days[0].TotalWorkMinutes = 10
  /\ TodaySummary(s, last.now) = <<10, 10>>

\* C9: Normalize is idempotent: in every state and for every now, a second
\* Normalize(now) right after Normalize(now) leaves the whole state unchanged.
C9_NormalizeIdempotent ==
  \A now \in Times : Normalize(Normalize(s, now), now) = Normalize(s, now)

\* Normalize has split a session and a break that both crossed midnight, and
\* a second Normalize with the same now leaves the state as it is.
C9_Witness ==
  /\ last.op = "Normalize"
  /\ s.ActiveSession # <<>> /\ s.ActiveBreak # <<>>
  /\ s.ActiveSession[1].Start = (last.now \div TicksPerDay) * TicksPerDay
  /\ s.ActiveBreak[1].Start = (last.now \div TicksPerDay) * TicksPerDay
  /\ \E k \in DOMAIN s.Days :
       /\ k < last.now \div TicksPerDay
       /\ Len(s.Days[k].Sessions) = 1
       /\ s.Days[k].Sessions[1].End = <<(last.now \div TicksPerDay) * TicksPerDay>>
       /\ s.Days[k].BreakCount = 1
  /\ Normalize(s, last.now) = s

SessionStartedDaysBefore ==
  /\ last'.op = "Normalize"
  /\ s.ActiveSession # <<>>
  /\ last'.now \div TicksPerDay - s.ActiveSession[1].Start \div TicksPerDay >= 2

BreakStartedDaysBefore ==
  /\ last'.op = "Normalize"
  /\ s.ActiveBreak # <<>>
  /\ last'.now \div TicksPerDay - s.ActiveBreak[1].Start \div TicksPerDay >= 2

BreakSplitRecorded ==
  LET act == s.ActiveBreak[1]
      mid == (last'.now \div TicksPerDay) * TicksPerDay
      key == act.Start \div TicksPerDay
  IN /\ NewBreakMinutes(key) = OldBreakMinutes(key) + (mid - act.Start) \div (60 * TicksPerSecond)
     /\ NewBreakCount(key) = OldBreakCount(key) + 1

SessionCrossedMidnight ==
  /\ last'.op = "Normalize"
  /\ s.ActiveSession # <<>>
  /\ (last'.now \div TicksPerDay) * TicksPerDay > s.ActiveSession[1].Start

BreakCrossedMidnight ==
  /\ last'.op = "Normalize"
  /\ s.ActiveBreak # <<>>
  /\ (last'.now \div TicksPerDay) * TicksPerDay > s.ActiveBreak[1].Start

\* C11 as stated: whenever midnight of now's date is after an active span's
\* start, the split of Normalize changes the start date's DayLog as an
\* explicit stop at midnight would: for a session it appends the span and adds
\* its seconds; for a break it adds the floor of the minutes and increments
\* BreakCount by 1, for every duration before midnight, durations under one
\* minute included.
C11_AsStated ==
  [][ /\ SessionCrossedMidnight => SessionSplitRecorded
      /\ BreakCrossedMidnight => BreakSplitRecorded
    ]_vars

\* C11 (amended): whenever midnight of now's date is after an active span's
\* start, the split of Normalize appends the session's span and adds its whole
\* seconds to the start date's DayLog when at least one whole second lies
\* before midnight, and adds the floor of the break's minutes and 1 to
\* BreakCount when at least one whole minute lies before midnight; a shorter
\* piece of a session leaves Sessions and TotalWorkSeconds as they were and a
\* shorter piece of a break leaves TotalBreakMinutes and BreakCount as they
\* were, where an explicit stop would have recorded a span, or counted a break.
C11_SplitRecordsWholeUnits ==
  [][ /\ SessionCrossedMidnight =>
           LET act == s.ActiveSession[1]
               mid == (last'.now \div TicksPerDay) * TicksPerDay
               key == act.Start \div TicksPerDay
           IN IF mid - act.Start >= TicksPerSecond
              THEN SessionSplitRecorded
              ELSE /\ NewSessions(key) = OldSessions(key)
                   /\ NewWorkSeconds(key) = OldWorkSeconds(key)
      /\ BreakCrossedMidnight =>
           LET act == s.ActiveBreak[1]
               mid == (last'.now \div TicksPerDay) * TicksPerDay
               key == act.Start \div TicksPerDay
           IN IF mid - act.Start >= 60 * TicksPerSecond
              THEN BreakSplitRecorded
              ELSE /\ NewBreakMinutes(key) = OldBreakMinutes(key)
                   /\ NewBreakCount(key) = OldBreakCount(key)
    ]_vars

\* A break running since 23:50 of day 0 has been split by Normalize on a later
\* day: day 0 counts one break of ten minutes.
C11_Witness ==
  /\ last.op = "Normalize" /\ last.now >= TicksPerDay
  /\ s.ActiveBreak # <<>>
  /\ s.ActiveBreak[1].Start = (last.now \div TicksPerDay) * TicksPerDay
  /\ s.ActiveSession = <<>>
  /\ DOMAIN s.Days = {0}
  /\ s.Days[0].BreakCount = 1
  /\ s.Days[0].TotalBreakMinutes = 10 + 1440 * (last.now \div TicksPerDay - 1)
  /\ s.Days[0].Sessions = <<>>

\* ==== sequences of StartSession / StopSession with increasing now ==========
\* Timestamps of the sequences: four half minutes apart from 09:00:00 of day
\* 0, 23:59:59 plus one tick of day 0, and 00:10:00 of every later day.
SeqTimes ==
  { At(0, 9, 0, 0, 0), At(0, 9, 0, 30, 0), At(0, 9, 1, 0, 0), At(0, 9, 1, 30, 0),
    At(0, 23, 59, 59, 1) }
  \cup { At(d, 0, 10, 0, 0) : d \in 1..MaxDay }

SeqApply(op, now, tags, note, r) ==
  /\ now > last.now
  /\ s' = r.st
  /\ last' = Call(op, now, tags, note, r.ret, r.err)
  /\ steps' = steps + 1
  /\ acc' = [returned |-> acc.returned + r.ret]
  /\ UNCHANGED <<dash, disk, saver>>

SeqStartSession ==
  \E now \in SeqTimes, l \in Labels :
    SeqApply("StartSession", now, l.tags, l.note, StartSession(s, now, l.tags, l.note))

SeqStopSession ==
  \E now \in SeqTimes : SeqApply("StopSession", now, <<>>, "", StopSession(s, now))

NextSeq == SeqStartSession \/ SeqStopSession

SpecSeq == Init /\ [][NextSeq]_vars

SpanSeconds(span) == (span.End[1] - span.Start) \div TicksPerSecond

RECURSIVE SumSpanSeconds(_)
\* The sum of the whole seconds of the spans of a sequence.
SumSpanSeconds(spans) ==
  IF spans = <<>> THEN 0
  ELSE SpanSeconds(spans[1]) + SumSpanSeconds(Tail(spans))

RECURSIVE SumSpanMinutes(_)
\* The sum of the whole minutes of the spans of a sequence, span by span.
SumSpanMinutes(spans) ==
  IF spans = <<>> THEN 0
  ELSE SpanSeconds(spans[1]) \div 60 + SumSpanMinutes(Tail(spans))

RECURSIVE SumWorkMinutes(_)
\* The sum of TotalWorkMinutes over the days of keys.
SumWorkMinutes(keys) ==
  IF keys = {} THEN 0
  ELSE LET k == CHOOSE x \in keys : TRUE
       IN s.Days[k].TotalWorkMinutes + SumWorkMinutes(keys \ {k})

RECURSIVE SumReturnedMinutes(_)
\* The sum over the days of keys of the whole minutes of their spans.
SumReturnedMinutes(keys) ==
  IF keys = {} THEN 0
  ELSE LET k == CHOOSE x \in keys : TRUE
       IN SumSpanMinutes(s.Days[k].Sessions) + SumReturnedMinutes(keys \ {k})

\* C12 as stated: for any sequence of StartSession / StopSession calls with
\* strictly increasing now from the empty state, the sum of the minutes
\* returned by the StopSession calls equals the minutes accumulated in the
\* TotalWorkMinutes of the days the sessions were credited to.
C12_AsStated ==
  acc.returned = SumWorkMinutes(DOMAIN s.Days)

\* C12 (amended): for any sequence of StartSession / StopSession calls with
\* strictly increasing now from the empty state, the sum of the returned
\* minutes equals the sum over the recorded sessions of floor(session seconds
\* / 60); each day's TotalWorkMinutes equals floor(sum of that day's session
\* seconds / 60), so the returned sum never exceeds the accumulated minutes
\* and falls short of them when the seconds left over by several sessions of
\* a day add up to a minute.
C12_ReturnedMinutesAtMostAccumulated ==
  /\ acc.returned = SumReturnedMinutes(DOMAIN s.Days)
  /\ \A k \in DOMAIN s.Days :
       s.Days[k].TotalWorkMinutes = SumSpanSeconds(s.Days[k].Sessions) \div 60
  /\ acc.returned <= SumWorkMinutes(DOMAIN s.Days)

\* Two sessions of thirty seconds each on day 0: both stops returned 0 and
\* the day holds one minute.
C12_Witness ==
  /\ last.op = "StopSession" /\ last.err = ""
  /\ acc.returned = 0
  /\ 0 \in DOMAIN s.Days
  /\ Len(s.Days[0].Sessions) = 2
  /\ s.Days[0].TotalWorkSeconds = 60
  /\ s.Days[0].TotalWorkMinutes = 1

\* ==== operations on a state loaded from an existing state file =============
MaxLoadedSteps == 2

\* A DayLog of day 0 as the current version writes it: one session 09:00 to
\* 09:50, one break of five minutes, the goal of the time as snapshot.
ModernLog ==
  [Date |-> 0,
   Sessions |-> << Session(At(0, 9, 0, 0, 0), <<At(0, 9, 50, 0, 0)>>, <<>>, "") >>,
   TotalWorkMinutes |-> 50, TotalWorkSeconds |-> 3000,
   TotalBreakMinutes |-> 5, BreakCount |-> 1,
   GoalMinutes |-> defaultGoalMinutes]

\* The same DayLog as a version without total_work_seconds wrote it: the
\* field is absent from the document and reads as 0.
LegacyLog == [ModernLog EXCEPT !.TotalWorkSeconds = 0]

\* States that Load returns from state files written earlier.
LoadedStates ==
  { [defaults EXCEPT !.GoalMinutes = g, !.Days = d, !.ActiveSession = a, !.ActiveBreak = b] :
      g \in {defaultGoalMinutes, 480},
      d \in { <<>>, PutDay(<<>>, 0, ModernLog), PutDay(<<>>, 0, LegacyLog) },
      a \in { <<>>, <<Session(At(0, 23, 50, 0, 0), <<>>, <<"deep">>, "spec")>> },
      b \in { <<>>, <<Session(At(0, 23, 50, 0, 0), <<>>, <<>>, "")>> } }

InitLoaded ==
  /\ s \in LoadedStates
  /\ last = Call("Load", 0, <<>>, "", 0, "")
  /\ steps = 0
  /\ InitRest

LoadedApply(op, now, tags, note, r) ==
  /\ steps < MaxLoadedSteps
  /\ s' = r.st
  /\ last' = Call(op, now, tags, note, r.ret, r.err)
  /\ steps' = steps + 1
  /\ UNCHANGED <<acc, dash, disk, saver>>

LoadedStartSession ==
  \E now \in Times, l \in Labels :
    LoadedApply("StartSession", now, l.tags, l.note, StartSession(s, now, l.tags, l.note))

LoadedStopSession ==
  \E now \in Times : LoadedApply("StopSession", now, <<>>, "", StopSession(s, now))

LoadedStartBreak ==
  \E now \in Times : LoadedApply("StartBreak", now, <<>>, "", StartBreak(s, now))

LoadedStopBreak ==
  \E now \in Times : LoadedApply("StopBreak", now, <<>>, "", StopBreak(s, now))

LoadedNormalize ==
  \E now \in Times : LoadedApply("Normalize", now, <<>>, "", Result(Normalize(s, now), 0, ""))

\* work, active := st.TodaySummary(now): the call assigns nothing to the
\* state; the two results are recorded as ret and active.
LoadedTodaySummary ==
  \E now \in Times :
    /\ steps < MaxLoadedSteps
    /\ s' = s
    /\ last' = Call("TodaySummary", now, <<>>, "", TodaySummary(s, now)[1], "")
                 @@ [active |-> TodaySummary(s, now)[2]]
    /\ steps' = steps + 1
    /\ UNCHANGED <<acc, dash, disk, saver>>

NextLoaded ==
  \/ LoadedStartSession
  \/ LoadedStopSession
  \/ LoadedStartBreak
  \/ LoadedStopBreak
  \/ LoadedNormalize
  \/ LoadedTodaySummary

SpecLoaded == InitLoaded /\ [][NextLoaded]_vars

\* floor(a / b) for b > 0 and any integer a.
Floor(a, b) == a \div b

StoredWorkMinutes(now) ==
  IF now \div TicksPerDay \in DOMAIN s.Days
  THEN s.Days[now \div TicksPerDay].TotalWorkMinutes
  ELSE 0

\* C13 as stated: TodaySummary(now) returns workMinutes = the TotalWorkMinutes
\* stored for now's date (0 without a log) plus floor(minutes elapsed since
\* the active session's start) when a session is active, and activeMinutes =
\* that elapsed value (0 without a session); an active break contributes
\* nothing and the call changes no part of the state.
C13_AsStated ==
  [][ last'.op = "TodaySummary" =>
      LET now == last'.now
          elapsed == IF s.ActiveSession # <<>>
                     THEN Floor(now - s.ActiveSession[1].Start, 60 * TicksPerSecond)
                     ELSE 0
      IN /\ last'.ret = StoredWorkMinutes(now) + elapsed
         /\ last'.active = elapsed
         /\ s' = s
    ]_vars

\* C13 (amended): TodaySummary(now) returns workMinutes = the TotalWorkMinutes
\* stored for now's date (0 without a log) plus the minutes elapsed since the
\* active session's start truncated toward zero (the floor when now >= start,
\* and for a start after now the negative minutes rounded up toward zero),
\* and activeMinutes = that elapsed value (0 without a session); an active
\* break contributes nothing and the call changes no part of the state.
C13_TodaySummary ==
  [][ last'.op = "TodaySummary" =>
      LET now == last'.now
          start == s.ActiveSession[1].Start
          elapsed == IF s.ActiveSession = <<>> THEN 0
                     ELSE IF now >= start
                          THEN Floor(now - start, 60 * TicksPerSecond)
                          ELSE -Floor(start - now, 60 * TicksPerSecond)
      IN /\ last'.ret = StoredWorkMinutes(now) + elapsed
         /\ last'.active = elapsed
         /\ s' = s
    ]_vars

\* TodaySummary has been called on a day with 50 stored minutes while a
\* session and a break were both running: 9 active minutes, 59 in all.
C13_Witness ==
  /\ last.op = "TodaySummary"
  /\ s.ActiveSession # <<>> /\ s.ActiveBreak # <<>>
  /\ last.active = 9
  /\ last.ret = 59
  /\ 0 \in DOMAIN s.Days /\ s.Days[0].TotalWorkMinutes = 50

\* C14: after a successful StartBreak the state has a break and no session,
\* and a StartSession made while that break is still running (with or without
\* a Normalize in between, as `daily start` does) succeeds: it sets the
\* active session and leaves the active break as it was, so that both are set
\* at the same time.
C14_StartSessionDuringBreak ==
  [][ /\ (last'.op = "StartBreak" /\ last'.err = "") =>
           (s'.ActiveBreak # <<>> /\ s'.ActiveSession = <<>>)
      /\ (last'.op = "StartSession" /\ s.ActiveBreak # <<>> /\ s.ActiveSession = <<>>) =>
           /\ last'.err = ""
           /\ s'.ActiveSession # <<>>
           /\ s'.ActiveSession[1].Start = last'.now
           /\ s'.ActiveSession[1].End = <<>>
           /\ s'.ActiveBreak = s.ActiveBreak
    ]_vars

\* A session was started during a running break: both are active and the
\* break began before the session.
C14_Witness ==
  /\ last.op = "StartSession" /\ last.err = ""
  /\ s.ActiveSession # <<>> /\ s.ActiveBreak # <<>>
  /\ s.ActiveBreak[1].Start < s.ActiveSession[1].Start

\* ==== the dashboard and the tray acting on one state file ===================
\* The state s is the document in the state file; every helper below loads it,
\* applies engine operations and saves the result when no operation failed.
\* dash.onBreak is the dashboard's m.summary.onBreak, set by its last reload,
\* and dash.err its m.err, which View renders as the inline error notice.
MaxSurfaceSteps == 3

SurfaceTimes ==
  { At(0, 23, 50, 0, 0), At(0, 23, 59, 59, 1) } \cup { At(d, 0, 10, 0, 0) : d \in 1..MaxDay }

\* model.reload: Load, Normalize and TodaySummary for display only; nothing
\* is saved, and the cached flag is the loaded document's ActiveBreak # nil.
\* Its last statement is m.err = nil: whatever error the key handler has put
\* into m.err before calling reload is gone once the file has loaded.
reload(m, st) == [m EXCEPT !.onBreak = st.ActiveBreak # <<>>, !.err = ""]

\* model.execute: m.err = nil, then m.err = the error of the chosen action.
execute(m, r) == [m EXCEPT !.err = r.err]

\* model.execute, case actionStart: stopBreak (saved on its own) when the
\* cached flag says a break is running, then startSession.
actionStart(st, onBreak, now) ==
  LET b == IF onBreak THEN StopBreak(st, now) ELSE Result(st, 0, "")
  IN IF b.err # "" THEN Result(st, 0, b.err)
     ELSE LET r == StartSession(b.st, now, <<>>, "")
          IN IF r.err # "" THEN Result(b.st, 0, r.err) ELSE r

\* model.execute, case actionStop.
actionStop(st, now) ==
  LET r == StopSession(st, now)
  IN IF r.err # "" THEN Result(st, 0, r.err) ELSE r

\* model.execute, case actionBreak: toggles on the cached flag.
actionBreak(st, onBreak, now) ==
  LET r == IF onBreak THEN StopBreak(st, now) ELSE StartBreak(st, now)
  IN IF r.err # "" THEN Result(st, 0, r.err) ELSE r

\* tray start(): both time.Now() calls are taken as the same instant; an
\* error returns before Save, so nothing of the call is persisted.
start(st, now) ==
  LET b == IF st.ActiveBreak # <<>> THEN StopBreak(st, now) ELSE Result(st, 0, "")
  IN IF b.err # "" THEN Result(st, 0, b.err)
     ELSE LET r == StartSession(b.st, now, <<>>, "")
          IN IF r.err # "" THEN Result(st, 0, r.err) ELSE r

\* tray stop().
stop(st, now) ==
  IF st.ActiveSession = <<>> THEN Result(st, 0, "")
  ELSE LET r == StopSession(st, now)
       IN IF r.err # "" THEN Result(st, 0, r.err) ELSE r

\* tray toggleBreak().
toggleBreak(st, now) ==
  IF st.ActiveBreak # <<>>
  THEN LET r == StopBreak(st, now)
       IN IF r.err # "" THEN Result(st, 0, r.err) ELSE r
  ELSE LET w == IF st.ActiveSession # <<>> THEN StopSession(st, now) ELSE Result(st, 0, "")
       IN IF w.err # "" THEN Result(st, 0, w.err)
          ELSE LET r == StartBreak(w.st, now)
               IN IF r.err # "" THEN Result(st, 0, r.err) ELSE r

SurfaceApply(op, now, r, cache) ==
  /\ steps < MaxSurfaceSteps
  /\ now >= last.now
  /\ s' = r.st
  /\ last' = Call(op, now, <<>>, "", r.ret, r.err)
  /\ steps' = steps + 1
  /\ dash' = cache
  /\ UNCHANGED <<acc, disk, saver>>

\* tickMsg outside the game view: reload only.
DashTick ==
  \E now \in SurfaceTimes : SurfaceApply("tick", now, Result(s, 0, ""), reload(dash, s))

DashStart ==
  \E now \in SurfaceTimes :
    LET r == actionStart(s, dash.onBreak, now)
    IN SurfaceApply("actionStart", now, r, reload(execute(dash, r), r.st))

DashStop ==
  \E now \in SurfaceTimes :
    LET r == actionStop(s, now)
    IN SurfaceApply("actionStop", now, r, reload(execute(dash, r), r.st))

DashBreak ==
  \E now \in SurfaceTimes :
    LET r == actionBreak(s, dash.onBreak, now)
    IN SurfaceApply("actionBreak", now, r, reload(execute(dash, r), r.st))

TrayStart ==
  \E now \in SurfaceTimes : SurfaceApply("start", now, start(s, now), dash)

TrayStop ==
  \E now \in SurfaceTimes : SurfaceApply("stop", now, stop(s, now), dash)

TrayBreak ==
  \E now \in SurfaceTimes : SurfaceApply("toggleBreak", now, toggleBreak(s, now), dash)

NextSurfaces ==
  \/ DashTick
  \/ DashStart
  \/ DashStop
  \/ DashBreak
  \/ TrayStart
  \/ TrayStop
  \/ TrayBreak

SpecSurfaces == Init /\ [][NextSurfaces]_vars

\* C15 as stated: starting from a state file with no session and no break,
\* after any sequence of dashboard actions (start, stop, break toggle) and
\* tray actions (Start, Stop, Break), each run to completion, the state file
\* never has ActiveSession and ActiveBreak both set.
C15_AsStated == ~(s.ActiveSession # <<>> /\ s.ActiveBreak # <<>>)

\* C16 as stated: whenever an action of a surface stops a session that
\* started the day before now's date, the seconds up to midnight are credited
\* to the start date's DayLog and only the seconds after midnight to the
\* DayLog of now's date (the state was normalized before the stop).
C16_AsStated ==
  [][ ( /\ s.ActiveSession # <<>>
        /\ s'.ActiveSession = <<>>
        /\ s.ActiveSession[1].Start \div TicksPerDay + 1 = last'.now \div TicksPerDay ) =>
      LET began == s.ActiveSession[1].Start
          today == last'.now \div TicksPerDay
          mid == today * TicksPerDay
      IN /\ NewWorkSeconds(today - 1) = OldWorkSeconds(today - 1) + (mid - began) \div TicksPerSecond
         /\ NewWorkSeconds(today) = OldWorkSeconds(today) + (last'.now - mid) \div TicksPerSecond
    ]_vars

\* ==== DayLog writes ========================================================
\* The step has appended a span to the sessions of day key: a work-span write.
WorkWritten(key) == NewSessions(key) # OldSessions(key)

\* The whole seconds of the span appended last to day key.
WrittenSeconds(key) ==
  LET w == NewSessions(key)[Len(NewSessions(key))]
  IN (w.End[1] - w.Start) \div TicksPerSecond

\* C17: every work-span write (a successful StopSession, also inside
\* StartBreak, and the session split of Normalize) sets the goal snapshot of
\* the DayLog it writes to the current global GoalMinutes; every other step,
\* break writes included, leaves the snapshot of an existing DayLog unchanged.
C17_GoalSnapshotOnWorkWrites ==
  [][ /\ (last'.op = "StopSession" /\ last'.err = "") =>
           WorkWritten(last'.now \div TicksPerDay)
      /\ \A key \in DOMAIN s'.Days :
           IF WorkWritten(key)
           THEN s'.Days[key].GoalMinutes = s.GoalMinutes
           ELSE key \in DOMAIN s.Days =>
                  s'.Days[key].GoalMinutes = s.Days[key].GoalMinutes
    ]_vars

\* StopSession under a global goal of 480 has written to a log whose snapshot
\* was 720: the snapshot is now 480.
C17_Witness ==
  /\ last.op = "StopSession" /\ last.err = ""
  /\ s.GoalMinutes = 480
  /\ 0 \in DOMAIN s.Days
  /\ Len(s.Days[0].Sessions) = 2
  /\ s.Days[0].GoalMinutes = 480

\* C18: a work-span write of e seconds to a DayLog with TotalWorkMinutes =
\* M > 0 and TotalWorkSeconds = 0 leaves TotalWorkSeconds = 60*M + e; to any
\* other log it leaves TotalWorkSeconds = old + e; in both cases
\* TotalWorkMinutes = floor(TotalWorkSeconds / 60), and a written log with
\* minutes has seconds, so that it is never seeded again. Steps that write no
\* work span, break writes included, leave TotalWorkSeconds unchanged.
C18_LegacySeeding ==
  [][ \A key \in DOMAIN s'.Days :
        IF WorkWritten(key)
        THEN /\ Len(NewSessions(key)) = Len(OldSessions(key)) + 1
             /\ NewWorkSeconds(key) =
                  (IF OldWorkSeconds(key) = 0 /\ OldWorkMinutes(key) > 0
                   THEN 60 * OldWorkMinutes(key)
                   ELSE OldWorkSeconds(key)) + WrittenSeconds(key)
             /\ s'.Days[key].TotalWorkMinutes = NewWorkSeconds(key) \div 60
             /\ (s'.Days[key].TotalWorkMinutes > 0 => NewWorkSeconds(key) > 0)
        ELSE NewWorkSeconds(key) = OldWorkSeconds(key)
    ]_vars

\* The first work write to a log with 50 minutes and no seconds: a session of
\* 599 seconds leaves 3599 seconds and 59 minutes.
C18_Witness ==
  /\ last.op = "StopSession" /\ last.err = ""
  /\ last.now = At(0, 23, 59, 59, 1)
  /\ 0 \in DOMAIN s.Days
  /\ Len(s.Days[0].Sessions) = 2
  /\ s.Days[0].TotalWorkSeconds = 3599
  /\ s.Days[0].TotalWorkMinutes = 59

\* C19: no lifecycle operation and no Normalize call removes, reorders or
\* alters a recorded span: after every step each DayLog is still there and its
\* previous Sessions sequence is a prefix of its new one.
C19_RecordedSpansImmutable ==
  [][ \A key \in DOMAIN s.Days :
        /\ key \in DOMAIN s'.Days
        /\ Len(s'.Days[key].Sessions) >= Len(s.Days[key].Sessions)
        /\ SubSeq(s'.Days[key].Sessions, 1, Len(s.Days[key].Sessions)) = s.Days[key].Sessions
    ]_vars

\* Normalize has appended the pre-midnight part of the active session behind
\* the span recorded earlier for day 0.
C19_Witness ==
  /\ last.op = "Normalize"
  /\ 0 \in DOMAIN s.Days
  /\ Len(s.Days[0].Sessions) = 2
  /\ s.Days[0].Sessions[1] = ModernLog.Sessions[1]
  /\ s.Days[0].Sessions[2].Start = At(0, 23, 50, 0, 0)
  /\ s.Days[0].Sessions[2].End = <<At(1, 0, 0, 0, 0)>>

\* ==== Store: Save by a single writer ======================================
\* disk.dest is the state file and disk.tmp the file path + ".tmp"; each is
\* absent (<<>>) or holds the first n of the DocChunks pieces of a document.
\* The process crash is the end of the process only: what the kernel has
\* taken stays as it is, and rename(2) replaces the destination in one step.
DocChunks == 2

\* Documents handed to Save.
SaveDocs ==
  { defaults,
    [defaults EXCEPT !.GoalMinutes = 480],
    [defaults EXCEPT !.ActiveSession = <<Session(At(0, 9, 0, 0, 0), <<>>, <<>>, "")>>] }

File(doc, n) == <<[doc |-> doc, n |-> n]>>

\* Variant: the file is created at the destination path itself as well.
Create_inPlace(d, doc) == [dest |-> File(doc, 0), tmp |-> File(doc, 0)]

\* f, err := os.Create(tmp): the temporary file exists and is empty.
Create(d, doc) == [d EXCEPT !.tmp = File(doc, 0)]

\* enc.Encode(s): one more piece of the document has reached the file.
Write(d) == [d EXCEPT !.tmp = File(d.tmp[1].doc, d.tmp[1].n + 1)]

\* os.Rename(tmp, path).
Rename(d) == [dest |-> d.tmp, tmp |-> <<>>]

SaveStep(p, op, pc, err) ==
  /\ saver' = [saver EXCEPT ![p].pc = pc]
  /\ last' = Call(op, 0, <<>>, "", 0, err)
  /\ UNCHANGED <<steps, acc, dash>>

\* st.Save(path) is called with the state in memory.
SaveBegin ==
  /\ saver["cli"].pc = "idle"
  /\ \E doc \in SaveDocs :
       /\ s' = doc
       /\ saver' = [saver EXCEPT !["cli"] = [pc |-> "mkdir", doc |-> doc]]
  /\ last' = Call("Save", 0, <<>>, "", 0, "")
  /\ UNCHANGED <<steps, acc, dash, disk>>

SaveMkdir ==
  /\ saver["cli"].pc = "mkdir"
  /\ SaveStep("cli", "MkdirAll", "create", "")
  /\ UNCHANGED <<s, disk>>

SaveCreate ==
  /\ saver["cli"].pc = "create"
  /\ disk' = Create(disk, saver["cli"].doc)
  /\ SaveStep("cli", "Create", "write", "")
  /\ UNCHANGED s

SaveWrite ==
  /\ saver["cli"].pc = "write"
  /\ disk.tmp[1].n < DocChunks
  /\ disk' = Write(disk)
  /\ SaveStep("cli", "Encode", IF disk.tmp[1].n + 1 = DocChunks THEN "close" ELSE "write", "")
  /\ UNCHANGED s

SaveClose ==
  /\ saver["cli"].pc = "close"
  /\ SaveStep("cli", "Close", "rename", "")
  /\ UNCHANGED <<s, disk>>

SaveRename ==
  /\ saver["cli"].pc = "rename"
  /\ disk' = Rename(disk)
  /\ SaveStep("cli", "Rename", "idle", "")
  /\ UNCHANGED s

\* The step the writer is at fails: Save returns the error, the files stay
\* as they are (the temporary file is not removed).
SaveFail ==
  /\ saver["cli"].pc # "idle"
  /\ SaveStep("cli", saver["cli"].pc, "idle", "i/o error")
  /\ UNCHANGED <<s, disk>>

\* The process ends at any point of Save; the next run starts from idle.
SaveCrash ==
  /\ saver["cli"].pc # "idle"
  /\ SaveStep("cli", "crash", "idle", "")
  /\ UNCHANGED <<s, disk>>

NextSave ==
  \/ SaveBegin
  \/ SaveMkdir
  \/ SaveCreate
  \/ SaveWrite
  \/ SaveClose
  \/ SaveRename
  \/ SaveFail
  \/ SaveCrash

SpecSave == Init /\ [][NextSave]_vars

\* C20: with a single writer, whatever step of Save fails and wherever the
\* process ends, every step leaves the destination file as it was (absent
\* before the first successful Save) or replaces it by the complete document
\* being saved; the destination never holds a part of a document.
C20_SaveAtomic ==
  [][ /\ \/ disk'.dest = disk.dest
         \/ disk'.dest = <<[doc |-> saver["cli"].doc, n |-> DocChunks]>>
      /\ disk'.dest # <<>> => disk'.dest[1].n = DocChunks
    ]_vars

\* The process ended in the middle of writing a second document: half of it
\* is in the temporary file, the destination holds the whole first one.
C20_Witness ==
  /\ last.op = "crash"
  /\ saver["cli"].pc = "idle"
  /\ disk.dest # <<>> /\ disk.dest[1].n = DocChunks
  /\ disk.tmp # <<>> /\ disk.tmp[1].n = 1
  /\ disk.tmp[1].doc # disk.dest[1].doc

\* ==== two processes on one state file =====================================
\* `daily stop` ("cli") and one poll of `daily watch` ("watch") each run one
\* cycle Load, Normalize, StopSession, Save on the same path. A file is
\* absent (<<>>) or <<chunks>>, chunks being the pieces it holds in order:
\* <<doc>> for the piece of doc at that position, <<>> for a gap never
\* written. Both processes use the one temporary name path + ".tmp"; an open
\* file follows its inode: saver[p].fd is the name it has now ("tmp",
\* "dest"), "unlinked" once it was replaced, "none" when closed, and
\* saver[p].off is the number of pieces written through it.
RaceInitDoc ==
  [defaults EXCEPT !.ActiveSession = <<Session(At(0, 9, 0, 0, 0), <<>>, <<>>, "")>>]

RaceTimes == { At(0, 9, 50, 0, 0), At(0, 23, 50, 0, 0) }

\* The content of a file holding all of doc.
Whole(doc) == << [i \in 1..DocChunks |-> <<doc>>] >>

\* json.Unmarshal accepts the content only if it is one whole document.
IsWhole(file) ==
  /\ file # <<>>
  /\ Len(file[1]) = DocChunks
  /\ \A i \in 1..DocChunks : file[1][i] # <<>> /\ file[1][i] = file[1][1]

\* A write of one piece at offset off: pieces skipped over stay gaps.
WriteAt(chunks, off, doc) ==
  [i \in 1..(IF Len(chunks) > off + 1 THEN Len(chunks) ELSE off + 1) |->
     IF i = off + 1 THEN <<doc>>
     ELSE IF i <= Len(chunks) THEN chunks[i] ELSE <<>>]

InitRace ==
  /\ s = RaceInitDoc
  /\ last = Call("Load", 0, <<>>, "", 0, "")
  /\ steps = 0
  /\ acc = [returned |-> 0]
  /\ dash = [onBreak |-> FALSE, err |-> ""]
  /\ disk = [dest |-> Whole(RaceInitDoc), tmp |-> <<>>]
  /\ saver = [p \in Procs |-> [pc |-> "load", doc |-> defaults, fd |-> "none", off |-> 0,
                               err |-> "", saved |-> FALSE, order |-> 0]]

RaceStep(p, op, now, rec) ==
  /\ saver' = [saver EXCEPT ![p] = rec]
  /\ last' = Call(op, now, <<>>, p, 0, rec.err)
  /\ UNCHANGED <<s, acc, dash>>

\* The cycle of p ends: Save has returned (steps counts the returns in order)
\* or an earlier call has failed.
Done(rec, err) == [rec EXCEPT !.pc = "done", !.err = err, !.fd = "none"]

\* state.Load: os.ReadFile and json.Unmarshal.
RaceLoad(p) ==
  /\ saver[p].pc = "load"
  /\ disk.dest # <<>>
  /\ IF IsWhole(disk.dest)
     THEN RaceStep(p, "Load", 0, [saver[p] EXCEPT !.pc = "mutate", !.doc = disk.dest[1][1][1]])
     ELSE RaceStep(p, "Load", 0, Done(saver[p], "unexpected end of JSON input"))
  /\ UNCHANGED <<disk, steps>>

\* st.Normalize(now), then StopSession(now): in `daily stop` always, in the
\* watch poll when a session is active and the machine has been idle.
RaceStop(p) ==
  /\ saver[p].pc = "mutate"
  /\ \E now \in RaceTimes :
       LET st == Normalize(saver[p].doc, now)
           r == StopSession(st, now)
       IN IF p = "watch" /\ st.ActiveSession = <<>>
          THEN RaceStep(p, "poll", now, Done(saver[p], ""))
          ELSE IF r.err # ""
          THEN RaceStep(p, "StopSession", now, Done(saver[p], r.err))
          ELSE RaceStep(p, "StopSession", now, [saver[p] EXCEPT !.pc = "mkdir", !.doc = r.st])
  /\ UNCHANGED <<disk, steps>>

RaceMkdir(p) ==
  /\ saver[p].pc = "mkdir"
  /\ RaceStep(p, "MkdirAll", 0, [saver[p] EXCEPT !.pc = "create", !.saved = TRUE])
  /\ UNCHANGED <<disk, steps>>

\* os.Create(tmp): O_CREATE|O_TRUNC on the shared name; an existing file is
\* emptied in place, also under a process that still writes to it.
RaceCreate(p) ==
  /\ saver[p].pc = "create"
  /\ disk' = [disk EXCEPT !.tmp = << <<>> >>]
  /\ RaceStep(p, "Create", 0, [saver[p] EXCEPT !.pc = "write", !.fd = "tmp", !.off = 0])
  /\ UNCHANGED steps

\* enc.Encode(s): the next piece goes to the open file at the descriptor's
\* own offset, whatever name the file has by now.
RaceWrite(p) ==
  /\ saver[p].pc = "write"
  /\ disk' = IF saver[p].fd = "tmp"
             THEN [disk EXCEPT !.tmp = << WriteAt(disk.tmp[1], saver[p].off, saver[p].doc) >>]
             ELSE IF saver[p].fd = "dest"
             THEN [disk EXCEPT !.dest = << WriteAt(disk.dest[1], saver[p].off, saver[p].doc) >>]
             ELSE disk
  /\ RaceStep(p, "Encode", 0,
              [saver[p] EXCEPT !.off = @ + 1,
                               !.pc = IF saver[p].off + 1 = DocChunks THEN "close" ELSE "write"])
  /\ UNCHANGED steps

RaceClose(p) ==
  /\ saver[p].pc = "close"
  /\ RaceStep(p, "Close", 0, [saver[p] EXCEPT !.pc = "rename", !.fd = "none"])
  /\ UNCHANGED <<disk, steps>>

\* os.Rename(tmp, path): fails when the other process has renamed the shared
\* temporary file away; otherwise the file now at tmp, whatever it holds,
\* replaces the destination.
RaceRename(p) ==
  /\ saver[p].pc = "rename"
  /\ steps' = steps + 1
  /\ IF disk.tmp = <<>>
     THEN /\ disk' = disk
          /\ RaceStep(p, "Rename", 0,
                      [Done(saver[p], "rename: no such file or directory") EXCEPT !.order = steps + 1])
     ELSE /\ disk' = [dest |-> disk.tmp, tmp |-> <<>>]
          /\ saver' = [q \in Procs |->
                         IF q = p THEN [Done(saver[p], "") EXCEPT !.order = steps + 1]
                         ELSE [saver[q] EXCEPT !.fd = IF @ = "tmp" THEN "dest"
                                                      ELSE IF @ = "dest" THEN "unlinked"
                                                      ELSE @]]
          /\ last' = Call("Rename", 0, <<>>, p, 0, "")
          /\ UNCHANGED <<s, acc, dash>>

NextRace ==
  \E p \in Procs :
    \/ RaceLoad(p)
    \/ RaceStop(p)
    \/ RaceMkdir(p)
    \/ RaceCreate(p)
    \/ RaceWrite(p)
    \/ RaceClose(p)
    \/ RaceRename(p)

SpecRace == InitRace /\ [][NextRace]_vars

\* C21 as stated: for every interleaving of the steps of the Save calls of
\* two processes on the same path, the destination file at every moment
\* holds one complete document, never a truncated or mixed one.
C21_AsStated == IsWhole(disk.dest)

\* Both cycles are over and both processes have called Save.
BothSaved == \A p \in Procs : saver[p].pc = "done" /\ saver[p].saved

\* The process whose Save returned last.
LaterSaver == CHOOSE p \in Procs : \A q \in Procs : saver[q].order <= saver[p].order

\* C22 as stated: when the two processes have run overlapping load, mutate,
\* save cycles, the file equals the later saver's snapshot and neither
\* process has received an error (the watch loop discards what Save returns,
\* so only `daily stop` can receive one here).
C22_AsStated ==
  BothSaved =>
    /\ disk.dest = Whole(saver[LaterSaver].doc)
    /\ saver["cli"].err = ""

\* ==== Store: documents, Load and Save as whole calls ======================
\* A state file is absent (<<>>) or <<doc>>: doc is the JSON object that
\* Save encodes, or Malformed for content that json.Unmarshal rejects. A
\* field tagged omitempty is <<>> when it is left out and <<v>> otherwise.
\* Timestamps are written in RFC 3339 with nanoseconds and read back as the
\* same instant. A Save that fails leaves the file as it was.
Malformed == [malformed |-> TRUE]

OmitEmpty(v, zero) == IF v = zero THEN <<>> ELSE <<v>>

Restore(field, zero) == IF field = <<>> THEN zero ELSE field[1]

EncodeSession(x) ==
  [start |-> x.Start, end |-> x.End,
   tags |-> OmitEmpty(x.Tags, <<>>), note |-> OmitEmpty(x.Note, "")]

DecodeSession(j) ==
  Session(j.start, j.end, Restore(j.tags, <<>>), Restore(j.note, ""))

EncodeDayLog(x) ==
  [date |-> x.Date,
   sessions |-> [i \in 1..Len(x.Sessions) |-> EncodeSession(x.Sessions[i])],
   total_work_minutes |-> x.TotalWorkMinutes,
   total_work_seconds |-> OmitEmpty(x.TotalWorkSeconds, 0),
   total_break_minutes |-> x.TotalBreakMinutes,
   break_count |-> x.BreakCount,
   goal_minutes |-> x.GoalMinutes]

DecodeDayLog(j) ==
  [Date |-> j.date,
   Sessions |-> [i \in 1..Len(j.sessions) |-> DecodeSession(j.sessions[i])],
   TotalWorkMinutes |-> j.total_work_minutes,
   TotalWorkSeconds |-> Restore(j.total_work_seconds, 0),
   TotalBreakMinutes |-> j.total_break_minutes,
   BreakCount |-> j.break_count,
   GoalMinutes |-> j.goal_minutes]

\* json.NewEncoder(f).Encode(s)
Encode(st) ==
  [goal_minutes |-> st.GoalMinutes,
   break_interval_minutes |-> st.BreakIntervalMinutes,
   active_session |-> [i \in 1..Len(st.ActiveSession) |-> EncodeSession(st.ActiveSession[i])],
   active_break |-> [i \in 1..Len(st.ActiveBreak) |-> EncodeSession(st.ActiveBreak[i])],
   days |-> [k \in DOMAIN st.Days |-> EncodeDayLog(st.Days[k])]]

\* Variant: total_work_seconds is not read back.
Decode_dropsSeconds(j) ==
  [GoalMinutes |-> j.goal_minutes,
   BreakIntervalMinutes |-> j.break_interval_minutes,
   ActiveSession |-> [i \in 1..Len(j.active_session) |-> DecodeSession(j.active_session[i])],
   ActiveBreak |-> [i \in 1..Len(j.active_break) |-> DecodeSession(j.active_break[i])],
   Days |-> [k \in DOMAIN j.days |-> [DecodeDayLog(j.days[k]) EXCEPT !.TotalWorkSeconds = 0]]]

\* json.Unmarshal(data, &st)
Decode(j) ==
  [GoalMinutes |-> j.goal_minutes,
   BreakIntervalMinutes |-> j.break_interval_minutes,
   ActiveSession |-> [i \in 1..Len(j.active_session) |-> DecodeSession(j.active_session[i])],
   ActiveBreak |-> [i \in 1..Len(j.active_break) |-> DecodeSession(j.active_break[i])],
   Days |-> [k \in DOMAIN j.days |-> DecodeDayLog(j.days[k])]]

ensureDefaults(st) ==
  [st EXCEPT !.GoalMinutes = IF @ = 0 THEN defaultGoalMinutes ELSE @,
             !.BreakIntervalMinutes = IF @ = 0 THEN defaultBreakIntervalMinutes ELSE @]

\* s.Save(path) as one call: ok says whether every step of it succeeded.
Save(st, file, ok) ==
  IF ok THEN [file |-> <<Encode(st)>>, err |-> ""]
  ELSE [file |-> file, err |-> "i/o error"]

\* Variant: a missing file yields the defaults without writing them.
Load_noSelfHeal(file, ok) ==
  IF file = <<>>
  THEN [st |-> <<defaults>>, file |-> file, err |-> ""]
  ELSE IF file[1] = Malformed
  THEN [st |-> <<>>, file |-> file, err |-> "invalid character"]
  ELSE [st |-> <<ensureDefaults(Decode(file[1]))>>, file |-> file, err |-> ""]

\* Load(path): the returned *State is <<>> (nil) with an error.
Load(file, ok) ==
  IF file = <<>>
  THEN LET w == Save(defaults, file, ok)
       IN IF w.err # "" THEN [st |-> <<>>, file |-> w.file, err |-> w.err]
          ELSE [st |-> <<defaults>>, file |-> w.file, err |-> ""]
  ELSE IF file[1] = Malformed
  THEN [st |-> <<>>, file |-> file, err |-> "invalid character"]
  ELSE [st |-> <<ensureDefaults(Decode(file[1]))>>, file |-> file, err |-> ""]

\* State values handed to Save: what Load returned earlier, and values a
\* caller of the package built with a zero goal or a zero break interval.
StoreStates ==
  LoadedStates \cup { [defaults EXCEPT !.GoalMinutes = 0],
                      [defaults EXCEPT !.BreakIntervalMinutes = 0] }

InitStore ==
  /\ s = defaults
  /\ last = Call("defaults", 0, <<>>, "", 0, "")
  /\ steps = 0
  /\ acc = [returned |-> 0]
  /\ dash = [onBreak |-> FALSE, err |-> ""]
  /\ disk \in { [dest |-> f, tmp |-> <<>>] : f \in { <<>>, <<Malformed>> } }
  /\ saver = [p \in Procs |-> [pc |-> "idle", doc |-> defaults]]

\* The caller holds some state value.
StoreHold ==
  \E st \in StoreStates :
    /\ s' = st
    /\ last' = Call("State", 0, <<>>, "", 0, "")
    /\ UNCHANGED <<steps, acc, dash, disk, saver>>

\* err := s.Save(path)
StoreSave ==
  \E ok \in BOOLEAN :
    LET w == Save(s, disk.dest, ok)
    IN /\ disk' = [disk EXCEPT !.dest = w.file]
       /\ last' = Call("Save", 0, <<>>, "", 0, w.err)
       /\ UNCHANGED <<s, steps, acc, dash, saver>>

\* st, err := state.Load(path); the caller keeps st when err is nil.
StoreLoad ==
  \E ok \in BOOLEAN :
    LET r == Load(disk.dest, ok)
    IN /\ disk' = [disk EXCEPT !.dest = r.file]
       /\ s' = IF r.err = "" THEN r.st[1] ELSE s
       /\ last' = Call("Load", 0, <<>>, "", 0, r.err)
       /\ UNCHANGED <<steps, acc, dash, saver>>

\* The file is removed or overwritten with something that is not JSON.
StoreDamage ==
  \E f \in { <<>>, <<Malformed>> } :
    /\ disk' = [disk EXCEPT !.dest = f]
    /\ last' = Call("damage", 0, <<>>, "", 0, "")
    /\ UNCHANGED <<s, steps, acc, dash, saver>>

NextStore ==
  \/ StoreHold
  \/ StoreSave
  \/ StoreLoad
  \/ StoreDamage

SpecStore == InitStore /\ [][NextStore]_vars

\* The document of the default state.
DefaultDocument ==
  [goal_minutes |-> 720, break_interval_minutes |-> 120,
   active_session |-> <<>>, active_break |-> <<>>, days |-> <<>>]

\* C23: Load on a path with no file returns, when it returns no error, the
\* default state (goal 720, break interval 120, no active session or break,
\* no days) and has written exactly that state to the path; when writing it
\* fails, Load returns the error and the path still has no file. Load on a
\* file with malformed content returns an error and leaves the file as it is.
C23_LoadAbsentOrMalformed ==
  [][ last'.op = "Load" =>
      /\ disk.dest = <<>> =>
           IF last'.err = ""
           THEN /\ s' = [GoalMinutes |-> 720, BreakIntervalMinutes |-> 120,
                         ActiveSession |-> <<>>, ActiveBreak |-> <<>>, Days |-> <<>>]
                /\ disk'.dest = <<DefaultDocument>>
           ELSE disk'.dest = <<>> /\ s' = s
      /\ disk.dest = <<Malformed>> => (last'.err # "" /\ disk' = disk /\ s' = s)
    ]_vars

\* Load has just created the missing file and returned the default state.
C23_Witness ==
  /\ last.op = "Load" /\ last.err = ""
  /\ disk.dest = <<DefaultDocument>>
  /\ s = defaults

C25_AsStated ==
  [][ (last'.op \in {"actionStart", "actionStop", "actionBreak"} /\ last'.err # "") =>
        dash'.err = last'.err
    ]_vars

\* ==== `daily set-goal` and `daily set-breaks` =============================
\* s is the state in the state file; each command is main from Load to exit.
SettingTimes == { At(0, 23, 50, 0, 0), At(1, 0, 10, 0, 0) }

\* Values of parseSingleInt(args).
SettingInputs == {-5, 0, 8, 45}

\* case "set-goal": nothing is rejected, ParseGoalMinutes maps a value <= 0
\* to the default goal, and the normalized state is saved.
setGoal(st, now, input) ==
  Result([Normalize(st, now) EXCEPT !.GoalMinutes = ParseGoalMinutes(input)], 0, "")

\* case "set-breaks": exitErr before Save when the value is <= 0.
setBreaks(st, now, input) ==
  IF input <= 0
  THEN Result(st, 0, "break interval must be > 0 minutes")
  ELSE Result([Normalize(st, now) EXCEPT !.BreakIntervalMinutes = input], 0, "")

SettingApply(op, now, input, r) ==
  /\ s' = r.st
  /\ last' = Call(op, now, <<input>>, "", r.ret, r.err)
  /\ UNCHANGED <<steps, acc, dash, disk, saver>>

CliSetGoal ==
  \E now \in SettingTimes, input \in SettingInputs :
    SettingApply("set-goal", now, input, setGoal(s, now, input))

CliSetBreaks ==
  \E now \in SettingTimes, input \in SettingInputs :
    SettingApply("set-breaks", now, input, setBreaks(s, now, input))

NextSettings ==
  \/ CliSetGoal
  \/ CliSetBreaks

SpecSettings == InitLoaded /\ [][NextSettings]_vars

\* C26 as stated: setting the daily goal or the break interval to a value
\* <= 0 is rejected with an error and leaves both persisted settings as they
\* were.
C26_AsStated ==
  [][ (last'.op \in {"set-goal", "set-breaks"} /\ last'.tags[1] <= 0) =>
        /\ last'.err # ""
        /\ s'.GoalMinutes = s.GoalMinutes
        /\ s'.BreakIntervalMinutes = s.BreakIntervalMinutes
    ]_vars

\* ==== Rendering: HumanMinutes and the tray's next milestone ================
MaxWorkMin == 660

\* Configured goals handed to nextMilestone.
GoalMinuteInputs == {30, 240, 300, 480, 720}

\* Variant: the minutes after the hours are not padded ("%dh%dm").
HumanMinutes_noPad(total) ==
  IF total < 60 THEN ToString(total) \o "m"
  ELSE IF total % 60 = 0 THEN ToString(total \div 60) \o "h"
  ELSE ToString(total \div 60) \o "h" \o ToString(total % 60) \o "m"

\* fmt.Sprintf with %d and %02d, for total >= 0.
HumanMinutes(total) ==
  IF total < 60 THEN ToString(total) \o "m"
  ELSE IF total % 60 = 0 THEN ToString(total \div 60) \o "h"
  ELSE ToString(total \div 60) \o "h"
       \o (IF total % 60 < 10 THEN "0" ELSE "") \o ToString(total % 60) \o "m"

milestoneThresholds == <<240, 360, 480, 600>>

\* Variant: a threshold equal to workMin still counts as ahead.
nextMilestone_inclusive(workMin, goalMin) ==
  LET ahead == { i \in 1..Len(milestoneThresholds) : milestoneThresholds[i] >= workMin }
      first == IF ahead = {} THEN -1
               ELSE milestoneThresholds[CHOOSE i \in ahead : \A j \in ahead : i <= j]
      best == IF first = -1 \/ (goalMin > 0 /\ goalMin < first) THEN goalMin ELSE first
  IN IF best <= 0 \/ best <= workMin THEN <<"", "">>
     ELSE <<HumanMinutes(best), HumanMinutes(best - workMin)>>

\* The loop takes the first threshold above workMin (the list is ascending).
nextMilestone(workMin, goalMin) ==
  LET ahead == { i \in 1..Len(milestoneThresholds) : milestoneThresholds[i] > workMin }
      first == IF ahead = {} THEN -1
               ELSE milestoneThresholds[CHOOSE i \in ahead : \A j \in ahead : i <= j]
      best == IF first = -1 \/ (goalMin > 0 /\ goalMin < first) THEN goalMin ELSE first
  IN IF best <= 0 \/ best <= workMin THEN <<"", "">>
     ELSE <<HumanMinutes(best), HumanMinutes(best - workMin)>>

\* One call per behaviour: the functions keep nothing between calls.
CallHumanMinutes ==
  \E n \in 0..MaxWorkMin :
    /\ last.op = "defaults"
    /\ last' = Call("HumanMinutes", 0, <<n>>, "", HumanMinutes(n), "")
    /\ UNCHANGED <<s, steps, acc, dash, disk, saver>>

CallNextMilestone ==
  \E workMin \in 0..MaxWorkMin, goalMin \in GoalMinuteInputs :
    /\ last.op = "defaults"
    /\ last' = Call("nextMilestone", 0, <<workMin, goalMin>>, "", nextMilestone(workMin, goalMin), "")
    /\ UNCHANGED <<s, steps, acc, dash, disk, saver>>

NextRender ==
  \/ CallHumanMinutes
  \/ CallNextMilestone

SpecRender == Init /\ [][NextRender]_vars

\* The thresholds above w, and the smallest of them.
ThresholdsAbove(w) == { th \in {240, 360, 480, 600} : th > w }

SmallestAbove(w) == CHOOSE th \in ThresholdsAbove(w) : \A o \in ThresholdsAbove(w) : th <= o

\* C27 as stated: for workMin >= 0 and goalMin > 0 with a threshold above
\* workMin, nextMilestone yields the smallest threshold strictly greater than
\* workMin, replaced by the goal when the goal is smaller than it, and the
\* ETA is that milestone minus workMin.
C27_AsStated ==
  (last.op = "nextMilestone" /\ ThresholdsAbove(last.tags[1]) # {}) =>
    LET w == last.tags[1]
        g == last.tags[2]
        m == IF g < SmallestAbove(w) THEN g ELSE SmallestAbove(w)
    IN last.ret = <<HumanMinutes(m), HumanMinutes(m - w)>>

\* C27 (amended): for workMin >= 0 and goalMin > 0 the candidate is the
\* smallest threshold strictly greater than workMin, replaced by the goal
\* when the goal is smaller than it or when no threshold is greater than
\* workMin; if the candidate is greater than workMin, nextMilestone yields it
\* with the ETA candidate minus workMin, and otherwise (the goal is reached
\* and is the candidate) it yields two empty strings.
C27_NextMilestone ==
  last.op = "nextMilestone" =>
    LET w == last.tags[1]
        g == last.tags[2]
        m == IF ThresholdsAbove(w) = {} THEN g
             ELSE IF g < SmallestAbove(w) THEN g ELSE SmallestAbove(w)
    IN IF m > w
       THEN last.ret = <<HumanMinutes(m), HumanMinutes(m - w)>>
       ELSE last.ret = <<"", "">>

\* 240 minutes worked under a goal of 480: the next milestone is 6h, 2h away.
C27_Witness ==
  /\ last.op = "nextMilestone"
  /\ last.tags = <<240, 480>>
  /\ last.ret = <<"6h", "2h">>

\* The decimal digit d as a string.
Digit(d) == ToString(d)

\* C28: HumanMinutes(n) for n >= 0 is "Nm" when n < 60, "Hh" when n >= 60
\* and n mod 60 = 0, and otherwise "HhMMm" with H = floor(n/60) and MM =
\* n mod 60 in two digits; 0 -> "0m", 59 -> "59m", 60 -> "1h", 90 -> "1h30m".
C28_HumanMinutes ==
  last.op = "HumanMinutes" =>
    LET n == last.tags[1]
        H == n \div 60
        MM == n % 60
    IN /\ n < 60 => last.ret = ToString(n) \o "m"
       /\ (n >= 60 /\ MM = 0) => last.ret = ToString(H) \o "h"
       /\ (n >= 60 /\ MM # 0) =>
            last.ret = ToString(H) \o "h" \o Digit(MM \div 10) \o Digit(MM % 10) \o "m"
       /\ n = 0 => last.ret = "0m"
       /\ n = 59 => last.ret = "59m"
       /\ n = 60 => last.ret = "1h"
       /\ n = 90 => last.ret = "1h30m"

\* 65 minutes have been rendered with the padded minutes.
C28_Witness ==
  /\ last.op = "HumanMinutes"
  /\ last.tags = <<65>>
  /\ last.ret = "1h05m"

\* ==== `daily watch`: the idle-watch loop ==================================
\* disk.dest is the state file as a document; saver["watch"].pc is "sleep"
\* between two polls and "exited" once runWatch has returned. The result of
\* idle.Duration() is <<>> for an error and <<m>> for m whole idle minutes.
idleMin == 10

WatchTimes == { At(0, 9, 0, 0, 0), At(0, 23, 59, 59, 1), At(1, 0, 10, 0, 0) }

ProbeResults == { <<>>, <<idleMin - 1>>, <<idleMin>> }

WatchFiles == { <<>>, <<Malformed>> } \cup { <<Encode(st)>> : st \in LoadedStates }

Polled(file, pc, err) == [file |-> file, pc |-> pc, err |-> err]

\* Variant: a failed probe is reported and tried again at the next poll.
poll_retriesProbe(file, now, probe, ok) ==
  LET l == Load(file, ok)
  IN IF l.err # "" THEN Polled(l.file, "sleep", l.err)
     ELSE LET st == Normalize(l.st[1], now)
          IN IF st.ActiveSession = <<>> THEN Polled(l.file, "sleep", "")
             ELSE IF probe = <<>> THEN Polled(l.file, "sleep", "idle check unsupported")
             ELSE IF probe[1] >= idleMin
             THEN LET r == StopSession(st, now)
                  IN IF r.err # "" THEN Polled(l.file, "sleep", r.err)
                     ELSE Polled(Save(r.st, l.file, ok).file, "sleep", "")
             ELSE Polled(l.file, "sleep", "")

\* Variant: the normalized state is saved at every poll with a session.
poll_savesAlways(file, now, probe, ok) ==
  LET l == Load(file, ok)
  IN IF l.err # "" THEN Polled(l.file, "sleep", l.err)
     ELSE LET st == Normalize(l.st[1], now)
          IN IF st.ActiveSession = <<>> THEN Polled(l.file, "sleep", "")
             ELSE IF probe = <<>> THEN Polled(l.file, "exited", "idle check unsupported")
             ELSE IF probe[1] >= idleMin
             THEN LET r == StopSession(st, now)
                  IN IF r.err # "" THEN Polled(l.file, "sleep", r.err)
                     ELSE Polled(Save(r.st, l.file, ok).file, "sleep", "")
             ELSE Polled(Save(st, l.file, ok).file, "sleep", "")

\* One iteration of the for loop of runWatch after time.Sleep; ok says
\* whether a Save made in it (by Load for a missing file, or after the stop)
\* succeeds. What Save returns after the stop is discarded.
poll(file, now, probe, ok) ==
  LET l == Load(file, ok)
  IN IF l.err # "" THEN Polled(l.file, "sleep", l.err)
     ELSE LET st == Normalize(l.st[1], now)
          IN IF st.ActiveSession = <<>> THEN Polled(l.file, "sleep", "")
             ELSE IF probe = <<>> THEN Polled(l.file, "exited", "idle check unsupported")
             ELSE IF probe[1] >= idleMin
             THEN LET r == StopSession(st, now)
                  IN IF r.err # "" THEN Polled(l.file, "sleep", r.err)
                     ELSE Polled(Save(r.st, l.file, ok).file, "sleep", "")
             ELSE Polled(l.file, "sleep", "")

InitWatch ==
  /\ s = defaults
  /\ last = Call("defaults", 0, <<>>, "", 0, "")
  /\ steps = 0
  /\ acc = [returned |-> 0]
  /\ dash = [onBreak |-> FALSE, err |-> ""]
  /\ disk \in { [dest |-> f, tmp |-> <<>>] : f \in WatchFiles }
  /\ saver = [p \in Procs |-> [pc |-> IF p = "watch" THEN "sleep" ELSE "idle", doc |-> defaults]]

WatchPoll ==
  /\ saver["watch"].pc = "sleep"
  /\ \E now \in WatchTimes, probe \in ProbeResults, ok \in BOOLEAN :
       LET r == poll(disk.dest, now, probe, ok)
       IN /\ disk' = [disk EXCEPT !.dest = r.file]
          /\ saver' = [saver EXCEPT !["watch"].pc = r.pc]
          /\ last' = Call("poll", now, <<>>, "", 0, r.err) @@ [probe |-> probe, ok |-> ok]
  /\ UNCHANGED <<s, steps, acc, dash>>

NextWatch == WatchPoll

SpecWatch == InitWatch /\ [][NextWatch]_vars

\* What a poll finds in the state file.
FileLoads == disk.dest # <<>> /\ disk.dest[1] # Malformed

SessionInFile == FileLoads /\ disk.dest[1].active_session # <<>>

\* C29: in a poll that reaches the idle probe (the file loads and has an
\* active session) a failure of the probe ends the loop with the error, and
\* there is no poll after it; every other poll, a failed Load and a failed
\* StopSession included, leaves the loop running.
C29_ProbeFailureEndsWatch ==
  [][ /\ saver["watch"].pc = "exited" => FALSE
      /\ last'.op = "poll" =>
           /\ (SessionInFile /\ last'.probe = <<>>) =>
                (saver'["watch"].pc = "exited" /\ last'.err # "")
           /\ ~(SessionInFile /\ last'.probe = <<>>) => saver'["watch"].pc = "sleep"
           /\ ~FileLoads /\ last'.err # "" => saver'["watch"].pc = "sleep"
           /\ (SessionInFile /\ last'.probe = <<10>>
                 /\ last'.now < disk.dest[1].active_session[1].start) =>
                (last'.err = "stop time is before start time" /\ saver'["watch"].pc = "sleep")
    ]_vars

\* The loop has ended on a failed probe.
C29_Witness ==
  /\ saver["watch"].pc = "exited"
  /\ last.op = "poll" /\ last.probe = <<>> /\ last.err # ""
  /\ SessionInFile

\* C30 as stated: in each poll, if a session is active and the idle time is
\* at least the threshold, the persisted state has no active session after
\* it; if no session is active or the idle time is below the threshold, the
\* persisted state is not written.
C30_AsStated ==
  [][ last'.op = "poll" =>
      /\ (SessionInFile /\ last'.probe = <<10>>) =>
           (disk'.dest # <<>> /\ disk'.dest[1] # Malformed /\ disk'.dest[1].active_session = <<>>)
      /\ (~SessionInFile \/ last'.probe = <<9>>) => disk' = disk
    ]_vars

\* C30 (amended): in a poll whose Load succeeds on an existing file with an
\* active session, whose probe reports at least the threshold and whose
\* timestamp is not before the session's start, the session is stopped at the
\* poll timestamp and the state is saved: when the Save succeeds the file has
\* no active session and the day of the poll ends with a span up to the poll
\* timestamp, when it fails the file is unchanged (the failure is discarded).
\* In every other poll of an existing file (malformed, no session, probe
\* failed or below the threshold, stop refused) the file is not written. A
\* poll that finds no file leaves the default document there when Load can
\* write it, and no file otherwise.
C30_PollStopsIdleSession ==
  [][ last'.op = "poll" =>
      LET now == last'.now
          stops == /\ SessionInFile
                   /\ last'.probe = <<10>>
                   /\ now >= disk.dest[1].active_session[1].start
      IN /\ (stops /\ last'.ok) =>
              LET day == disk'.dest[1].days[now \div TicksPerDay]
              IN /\ disk'.dest[1].active_session = <<>>
                 /\ day.sessions[Len(day.sessions)].end = <<now>>
         /\ (stops /\ ~last'.ok) => disk' = disk
         /\ (disk.dest # <<>> /\ ~stops) => disk' = disk
         /\ disk.dest = <<>> =>
              disk'.dest = IF last'.ok THEN <<DefaultDocument>> ELSE <<>>
    ]_vars

\* The poll at 00:10 of day 1 has stopped an idle session that began at 23:50:
\* the file has no active session and both days have their ten minutes.
C30_Witness ==
  /\ last.op = "poll" /\ last.now = At(1, 0, 10, 0, 0) /\ last.err = ""
  /\ disk.dest # <<>> /\ disk.dest[1] # Malformed
  /\ disk.dest[1].active_session = <<>>
  /\ DOMAIN disk.dest[1].days = {0, 1}
  /\ disk.dest[1].days[0].total_work_minutes = 10
  /\ disk.dest[1].days[1].total_work_minutes = 10

\* ==== errors and recorded spans ===========================================

\* The four lifecycle operations of the engine.
LifecycleOps == {"StartSession", "StopSession", "StartBreak", "StopBreak"}

\* C32: a lifecycle operation (StartSession, StopSession, StartBreak, also
\* when its implicit stop is refused because now precedes the active
\* session's start, StopBreak) that returns an error leaves the whole state as
\* it was: the active spans, every DayLog and the settings.
C32_ErrorLeavesStateUnchanged ==
  [][ (last'.op \in LifecycleOps /\ last'.err # "") =>
        /\ s'.ActiveSession = s.ActiveSession
        /\ s'.ActiveBreak = s.ActiveBreak
        /\ DOMAIN s'.Days = DOMAIN s.Days
        /\ \A k \in DOMAIN s.Days : s'.Days[k] = s.Days[k]
        /\ s'.GoalMinutes = s.GoalMinutes
        /\ s'.BreakIntervalMinutes = s.BreakIntervalMinutes
    ]_vars

\* StartBreak has been refused by its implicit stop: the session that began
\* at 09:50 is still active at the call of 09:00 and no break has begun.
C32_Witness ==
  /\ last.op = "StartBreak"
  /\ last.err = "stop time is before start time"
  /\ last.now = At(0, 9, 0, 0, 0)
  /\ s.ActiveSession # <<>> /\ s.ActiveSession[1].Start = At(0, 9, 50, 0, 0)
  /\ s.ActiveBreak = <<>>

\* C34: in every state reached from the default state, every span of every
\* DayLog is closed with an end not before its start, and TotalWorkSeconds is
\* the sum of the whole seconds (end - start) of the spans of the day.
C34_SpansClosedAndSummed ==
  \A k \in DOMAIN s.Days :
    LET log == s.Days[k]
    IN /\ \A i \in 1..Len(log.Sessions) :
            /\ log.Sessions[i].End # <<>>
            /\ log.Sessions[i].End[1] >= log.Sessions[i].Start
       /\ log.TotalWorkSeconds = SumSpanSeconds(log.Sessions)

\* A session that began at 23:50 has been split at midnight by Normalize and
\* stopped at 00:10: each of the two days holds one span of 600 seconds.
C34_Witness ==
  /\ DOMAIN s.Days = {0, 1}
  /\ \A k \in {0, 1} :
       /\ Len(s.Days[k].Sessions) = 1
       /\ s.Days[k].TotalWorkSeconds = 600
       /\ s.Days[k].TotalWorkSeconds = SumSpanSeconds(s.Days[k].Sessions)
  /\ s.Days[0].Sessions[1].End = <<TicksPerDay>>

\* ==== the Normalizer's frame, the summary around a stop ====================

\* The active spans of a state, session first.
ActiveSpans(st) == st.ActiveSession \o st.ActiveBreak

\* C36: Normalize(now) neither sets nor clears ActiveSession or ActiveBreak
\* and changes neither their tags or note nor GoalMinutes or
\* BreakIntervalMinutes; after it, every active span whose start is not after
\* now starts on now's date; and when every active span already started on
\* now's date the call changes nothing.
C36_NormalizeFrame ==
  [][ last'.op = "Normalize" =>
      LET now == last'.now
          today == now \div TicksPerDay
      IN /\ Len(s'.ActiveSession) = Len(s.ActiveSession)
         /\ Len(s'.ActiveBreak) = Len(s.ActiveBreak)
         /\ \A i \in 1..Len(ActiveSpans(s)) :
              /\ ActiveSpans(s')[i].Tags = ActiveSpans(s)[i].Tags
              /\ ActiveSpans(s')[i].Note = ActiveSpans(s)[i].Note
              /\ ActiveSpans(s')[i].End = <<>>
         /\ s'.GoalMinutes = s.GoalMinutes
         /\ s'.BreakIntervalMinutes = s.BreakIntervalMinutes
         /\ \A i \in 1..Len(ActiveSpans(s')) :
              ActiveSpans(s')[i].Start <= now =>
                ActiveSpans(s')[i].Start \div TicksPerDay = today
         /\ (\A i \in 1..Len(ActiveSpans(s)) :
               ActiveSpans(s)[i].Start \div TicksPerDay = today) => s' = s
    ]_vars

\* Normalize at 00:10 of day 1 has moved a session and a break that began at
\* 23:50 to midnight; the session still carries its tag and note.
C36_Witness ==
  /\ last.op = "Normalize" /\ last.now = At(1, 0, 10, 0, 0)
  /\ s.ActiveSession # <<>> /\ s.ActiveSession[1].Start = TicksPerDay
  /\ s.ActiveSession[1].Tags = <<"deep">> /\ s.ActiveSession[1].Note = "spec"
  /\ s.ActiveBreak # <<>> /\ s.ActiveBreak[1].Start = TicksPerDay
  /\ 0 \in DOMAIN s.Days /\ s.Days[0].BreakCount >= 1

\* C37: when the active session began on now's date, not after now, the
\* workMinutes that TodaySummary(now) reports right after StopSession(now) are
\* not fewer than those it reported right before, and at most one more.
C37_SummaryAcrossStop ==
  [][ ( /\ last'.op = "StopSession"
        /\ s.ActiveSession # <<>>
        /\ s.ActiveSession[1].Start <= last'.now
        /\ s.ActiveSession[1].Start \div TicksPerDay = last'.now \div TicksPerDay ) =>
      LET reportedBefore == TodaySummary(s, last'.now)[1]
          reportedAfter == TodaySummary(s', last'.now)[1]
      IN /\ last'.err = ""
         /\ reportedAfter >= reportedBefore
         /\ reportedAfter <= reportedBefore + 1
    ]_vars

\* The stop that makes the report grow by one: two sessions of 30 seconds on
\* the same day, no whole minute in either, one whole minute in the day.
C37_Witness ==
  /\ last.op = "StopSession" /\ last.err = "" /\ last.ret = 0
  /\ 0 \in DOMAIN s.Days
  /\ Len(s.Days[0].Sessions) = 2
  /\ \A i \in 1..2 : SpanSeconds(s.Days[0].Sessions[i]) = 30
  /\ s.Days[0].TotalWorkMinutes = 1
  /\ s.ActiveSession = <<>>

\* ==== command cycles of the CLI ============================================
\* Every `daily start`, `daily stop` and `daily set-goal` is one process:
\* now := time.Now(), Load, Normalize(now), the command, Save.  A refused
\* command exits before Save, so the file keeps the state it had; s is the
\* state in the file, and Save is taken to succeed.

MaxCycleSteps == 4

\* Whole-second stamps around two midnights, and one stamp half a second
\* before the first midnight.
CycleTimes ==
  { At(0, 23, 50, 0, 0), At(0, 23, 59, 59, 1), At(1, 0, 0, 0, 0) }
  \cup { At(d, 0, 10, 0, 0) : d \in 1..MaxDay }

\* main(): the state the file holds after the command, its result and error.
main(st, now, cmd, tags, note, input) ==
  LET loaded == Normalize(st, now)
      r == CASE cmd = "start" -> StartSession(loaded, now, tags, note)
             [] cmd = "stop" -> StopSession(loaded, now)
             [] OTHER -> Result([loaded EXCEPT !.GoalMinutes = ParseGoalMinutes(input)], 0, "")
  IN IF r.err # "" THEN Result(st, 0, r.err) ELSE r

\* One process: the clock never goes back from one process to the next.  acc
\* remembers when the running session was started and the DayLogs of then.
CycleApply(cmd, now, tags, note, input) ==
  LET r == main(s, now, cmd, tags, note, input)
  IN /\ steps < MaxCycleSteps
     /\ now >= last.now
     /\ s' = r.st
     /\ last' = Call(cmd, now, tags, note, r.ret, r.err)
     /\ steps' = steps + 1
     /\ acc' = IF cmd = "start" /\ r.err = ""
               THEN [returned |-> 0, began |-> now, days |-> s.Days]
               ELSE acc
     /\ UNCHANGED <<dash, disk, saver>>

CycleStart ==
  \E now \in CycleTimes, l \in Labels : CycleApply("start", now, l.tags, l.note, 0)

CycleStop ==
  \E now \in CycleTimes : CycleApply("stop", now, <<>>, "", 0)

CycleSetGoal ==
  \E now \in CycleTimes, input \in GoalInputs : CycleApply("set-goal", now, <<>>, "", input)

NextCycles == CycleStart \/ CycleStop \/ CycleSetGoal

SpecCycles == Init /\ [][NextCycles]_vars

RECURSIVE SumDays(_, _)
\* The sum of TotalWorkSeconds over the days keys of the DayLogs days.
SumDays(days, keys) ==
  IF keys = {} THEN 0
  ELSE LET k == CHOOSE x \in keys : TRUE
       IN days[k].TotalWorkSeconds + SumDays(days, keys \ {k})

\* The seconds of work in all the DayLogs.
AllWorkSeconds(days) == SumDays(days, DOMAIN days)

\* C33: for a session started at a whole second and stopped, by Normalize(now)
\* then StopSession(now), at a whole second not before it, the seconds added
\* to TotalWorkSeconds over all DayLogs since the start are exactly the
\* seconds between the two stamps, whatever Normalize calls came in between.
C33_WorkConservedAcrossMidnight ==
  [][ ( /\ last'.op = "stop" /\ last'.err = ""
        /\ acc.began % TicksPerSecond = 0
        /\ last'.now % TicksPerSecond = 0 ) =>
      /\ last'.now >= acc.began
      /\ AllWorkSeconds(s'.Days) - AllWorkSeconds(acc.days)
           = (last'.now - acc.began) \div TicksPerSecond
    ]_vars

\* A session started at 23:50 of day 0, normalized by a set-goal on day 1 and
\* stopped at 00:10 of day 2: ten minutes, a whole day and ten minutes.
C33_Witness ==
  /\ last.op = "stop" /\ last.err = "" /\ last.now = At(2, 0, 10, 0, 0)
  /\ acc.began = At(0, 23, 50, 0, 0)
  /\ DOMAIN s.Days = {0, 1, 2}
  /\ s.Days[0].TotalWorkSeconds = 600
  /\ s.Days[1].TotalWorkSeconds = SecondsPerDay
  /\ s.Days[2].TotalWorkSeconds = 600

\* C35 as stated: in every state reached by cycles that call Normalize(now)
\* before each lifecycle operation, with non-decreasing now and arbitrary gaps
\* between the cycles, no DayLog has more TotalWorkSeconds than the 86400
\* seconds of one day.
C35_AsStated ==
  \A k \in DOMAIN s.Days : s.Days[k].TotalWorkSeconds <= SecondsPerDay

\* ==== daily sprint ========================================================
\* runSprint: cycles times (Load, StartSession, Save, Sleep(work), Load,
\* StopSession if a session is active, Save, Load, StartBreak, Save,
\* Sleep(break), Load, StopBreak if a break is active, Save).  Nobody else
\* writes the file, every Save succeeds and the clock does not go back; every
\* time.Now() is the latest reading or one tick later.

SprintCycles == 2

\* -work and -break in minutes (the defaults of the flags).
sprintWork == 50
sprintBreak == 10

SprintStarts == { At(0, 9, 0, 0, 0), At(0, 23, 0, 0, 0) }

\* time.Now() after the reading clock
Readings(clock) == { clock, clock + 1 }

sprintStopSession(st, now) ==
  IF st.ActiveSession # <<>> THEN StopSession(st, now) ELSE Result(st, 0, "")

\* Variant: the break of a cycle is left running.
sprintStopBreak_leavesBreak(st, now) == Result(st, 0, "")

sprintStopBreak(st, now) ==
  IF st.ActiveBreak # <<>> THEN StopBreak(st, now) ELSE Result(st, 0, "")

\* The file has no active session and no break, with or without a DayLog of
\* earlier work; acc keeps the DayLogs the sprint found.
InitSprint ==
  /\ s \in { [defaults EXCEPT !.Days = d] : d \in { <<>>, PutDay(<<>>, 0, ModernLog) } }
  /\ last = Call("runSprint", 0, <<>>, "", 0, "")
  /\ steps = 0
  /\ acc = [returned |-> 0, days |-> s.Days]
  /\ dash = [onBreak |-> FALSE, err |-> ""]
  /\ disk = [dest |-> <<>>, tmp |-> <<>>]
  /\ saver = [p \in Procs |-> [pc |-> IF p = "cli" THEN "start" ELSE "idle", doc |-> defaults]]

\* One step of the loop at program point pc: the operation's result is saved,
\* an error ends the sprint.
SprintStep(pc, op, now, tags, note, r, next) ==
  /\ saver["cli"].pc = pc
  /\ s' = r.st
  /\ last' = Call(op, now, tags, note, r.ret, r.err)
  /\ saver' = [saver EXCEPT !["cli"].pc = IF r.err # "" THEN "failed" ELSE next]
  /\ UNCHANGED <<acc, dash, disk>>

SprintStart ==
  \E now \in (IF steps = 0 THEN SprintStarts ELSE Readings(last.now)), l \in Labels :
    /\ SprintStep("start", "StartSession", now, l.tags, l.note,
                  StartSession(s, now, l.tags, l.note), "work")
    /\ (steps > 0 => (l.tags = last.tags /\ l.note = last.note))
    /\ UNCHANGED steps

\* time.Sleep(work minutes)
SprintWork ==
  \E now \in Readings(last.now + sprintWork * TicksPerMinute) :
    /\ saver["cli"].pc = "work"
    /\ last' = [last EXCEPT !.op = "Sleep", !.now = now]
    /\ saver' = [saver EXCEPT !["cli"].pc = "stop"]
    /\ UNCHANGED <<s, steps, acc, dash, disk>>

SprintStopSession ==
  \E now \in Readings(last.now) :
    /\ SprintStep("stop", "StopSession", now, last.tags, last.note,
                  sprintStopSession(s, now), "break")
    /\ UNCHANGED steps

SprintStartBreak ==
  \E now \in Readings(last.now) :
    /\ SprintStep("break", "StartBreak", now, last.tags, last.note,
                  StartBreak(s, now), "rest")
    /\ UNCHANGED steps

\* time.Sleep(break minutes)
SprintRest ==
  \E now \in Readings(last.now + sprintBreak * TicksPerMinute) :
    /\ saver["cli"].pc = "rest"
    /\ last' = [last EXCEPT !.op = "Sleep", !.now = now]
    /\ saver' = [saver EXCEPT !["cli"].pc = "stopBreak"]
    /\ UNCHANGED <<s, steps, acc, dash, disk>>

\* The last step of a cycle: i++ and the loop test.
SprintStopBreak ==
  \E now \in Readings(last.now) :
    /\ SprintStep("stopBreak", "StopBreak", now, last.tags, last.note,
                  sprintStopBreak(s, now),
                  IF steps + 1 < SprintCycles THEN "start" ELSE "done")
    /\ steps' = steps + 1

NextSprint ==
  \/ SprintStart
  \/ SprintWork
  \/ SprintStopSession
  \/ SprintStartBreak
  \/ SprintRest
  \/ SprintStopBreak

SpecSprint == InitSprint /\ [][NextSprint]_vars

RECURSIVE CountSessions(_, _)
\* The number of closed spans in the days keys of the DayLogs days.
CountSessions(days, keys) ==
  IF keys = {} THEN 0
  ELSE LET k == CHOOSE x \in keys : TRUE
       IN Len(days[k].Sessions) + CountSessions(days, keys \ {k})

RECURSIVE CountBreaks(_, _)
\* The sum of BreakCount over the days keys of the DayLogs days.
CountBreaks(days, keys) ==
  IF keys = {} THEN 0
  ELSE LET k == CHOOSE x \in keys : TRUE
       IN days[k].BreakCount + CountBreaks(days, keys \ {k})

\* What the sprint has recorded so far.
SprintSessions == CountSessions(s.Days, DOMAIN s.Days) - CountSessions(acc.days, DOMAIN acc.days)
SprintBreaks == CountBreaks(s.Days, DOMAIN s.Days) - CountBreaks(acc.days, DOMAIN acc.days)

MaxConfigSteps == 3

goalStepMinutes == 30
breakStepMinutes == 5
minGoalMinutes == 30
minBreakMinutes == 5

\* Variant: the new goal is saved as computed, without the lower limit.
changeGoal_noClamp(st, delta) ==
  Result([st EXCEPT !.GoalMinutes = st.GoalMinutes + delta], 0, "")

changeGoal(st, delta) ==
  LET newVal == st.GoalMinutes + delta
  IN Result([st EXCEPT !.GoalMinutes = IF newVal < minGoalMinutes
                                       THEN minGoalMinutes ELSE newVal], 0, "")

changeBreak(st, delta) ==
  LET newVal == st.BreakIntervalMinutes + delta
  IN Result([st EXCEPT !.BreakIntervalMinutes = IF newVal < minBreakMinutes
                                                THEN minBreakMinutes ELSE newVal], 0, "")

\* A refused operation returns before Save: the file keeps its state.
ConfigApply(op, now, input, r) ==
  /\ steps < MaxConfigSteps
  /\ s' = IF r.err # "" THEN s ELSE r.st
  /\ last' = Call(op, now, <<input>>, "", r.ret, r.err)
  /\ steps' = steps + 1
  /\ UNCHANGED <<acc, dash, disk, saver>>

ConfigSetGoal ==
  \E now \in SettingTimes, input \in SettingInputs :
    ConfigApply("set-goal", now, input, setGoal(s, now, input))

ConfigSetBreaks ==
  \E now \in SettingTimes, input \in SettingInputs :
    ConfigApply("set-breaks", now, input, setBreaks(s, now, input))

\* keys "+" "-" "]" "[" of the dashboard
ConfigKey ==
  \/ \E delta \in {goalStepMinutes, -goalStepMinutes} :
       ConfigApply("changeGoal", last.now, delta, changeGoal(s, delta))
  \/ \E delta \in {breakStepMinutes, -breakStepMinutes} :
       ConfigApply("changeBreak", last.now, delta, changeBreak(s, delta))

\* startSession, stopSession, startBreak, stopBreak of the dashboard
ConfigLifecycle ==
  \E now \in SettingTimes :
    \/ ConfigApply("StartSession", now, 0, StartSession(s, now, <<>>, ""))
    \/ ConfigApply("StopSession", now, 0, StopSession(s, now))
    \/ ConfigApply("StartBreak", now, 0, StartBreak(s, now))
    \/ ConfigApply("StopBreak", now, 0, StopBreak(s, now))

NextConfig ==
  \/ ConfigSetGoal
  \/ ConfigSetBreaks
  \/ ConfigKey
  \/ ConfigLifecycle

SpecConfig == Init /\ [][NextConfig]_vars

\* C39: from the default state, after any sequence of `daily set-goal N` and
\* `daily set-breaks N` with any integer N, dashboard keys + - [ ] and
\* lifecycle operations, the saved GoalMinutes and BreakIntervalMinutes are
\* both greater than zero, as are the goal snapshots of the DayLogs written
\* on the way.
C39_SettingsStayPositive ==
  /\ s.GoalMinutes > 0
  /\ s.BreakIntervalMinutes > 0
  /\ \A k \in DOMAIN s.Days : s.Days[k].GoalMinutes > 0

\* The key "-" has met the lower limit: a goal of 45 minutes set on the
\* command line has become 30, not 15.
C39_Witness ==
  /\ last.op = "changeGoal" /\ last.tags = <<-goalStepMinutes>>
  /\ s.GoalMinutes = minGoalMinutes
  /\ steps = 2

\* ==== tick timers of the dashboard =========================================
\* The runtime starts one timer for every tick(m.tickRate) command that Init
\* or Update returns, and delivers one tickMsg when a timer fires.
\* dash.pending counts the timers that have been started and have not fired.

MaxEvents == 4

\* model.actions, in menu order.
actions == <<"start", "stop", "status", "break", "relax">>

\* newModel and Init: the main view, the first menu entry, one timer.
InitTimers ==
  /\ s = defaults
  /\ last = Call("Init", 0, <<>>, "", 0, "")
  /\ steps = 0
  /\ acc = [returned |-> 0]
  /\ dash = [onBreak |-> FALSE, err |-> "", view |-> "main", selected |-> 1, pending |-> 1]
  /\ disk = [dest |-> <<>>, tmp |-> <<>>]
  /\ saver = [p \in Procs |-> [pc |-> "idle", doc |-> defaults]]

\* One Update call: the file after it, the model after it, and the timers
\* started by the command it returns.
Event(op, now, st, m, started) ==
  /\ steps < MaxEvents
  /\ now >= last.now
  /\ s' = st
  /\ last' = Call(op, now, <<>>, "", 0, m.err)
  /\ steps' = steps + 1
  /\ dash' = [m EXCEPT !.pending = @ + started]
  /\ UNCHANGED <<acc, disk, saver>>

\* case tickMsg: a timer has fired; reload outside the game view; the
\* returned tick starts the next timer.
TimerFires ==
  \E now \in SettingTimes :
    /\ dash.pending > 0
    /\ LET fired == [dash EXCEPT !.pending = @ - 1]
       IN Event("tickMsg", now, s,
                IF dash.view = "game" THEN fired ELSE reload(fired, s), 1)

\* keys "enter" and " ": the game is launched in the game view, the selected
\* action is executed elsewhere; both return tick(m.tickRate).
KeyEnter ==
  \E now \in SettingTimes :
    IF dash.view = "game"
    THEN Event("enter", now, s, dash, 1)
    ELSE LET action == actions[dash.selected]
             r == CASE action = "start" -> actionStart(s, dash.onBreak, now)
                    [] action = "stop" -> actionStop(s, now)
                    [] action = "break" -> actionBreak(s, dash.onBreak, now)
                    [] OTHER -> Result(s, 0, "")
             m == IF action = "relax" THEN [dash EXCEPT !.view = "game"] ELSE dash
         IN Event("enter", now, r.st, reload(execute(m, r), r.st), 1)

\* keys "+" "-" "[" "]": the setting is changed and saved, the model
\* reloaded, and tick(m.tickRate) returned.
KeySetting ==
  \E now \in SettingTimes, key \in {"+", "-", "[", "]"} :
    LET r == CASE key = "+" -> changeGoal(s, goalStepMinutes)
               [] key = "-" -> changeGoal(s, -goalStepMinutes)
               [] key = "[" -> changeBreak(s, -breakStepMinutes)
               [] OTHER -> changeBreak(s, breakStepMinutes)
    IN Event(key, now, r.st, reload(execute(dash, r), r.st), 1)

\* keys "tab" and "w" switch between the main and the week view, "esc" goes
\* to the main view, "r" to the game; no command is returned.
KeyView ==
  \E now \in SettingTimes, key \in {"tab", "esc", "r"} :
    LET view == CASE key = "tab" -> IF dash.view = "main" THEN "week" ELSE "main"
                  [] key = "esc" -> "main"
                  [] OTHER -> "game"
    IN Event(key, now, s, [dash EXCEPT !.view = view], 0)

\* keys "up" "k" "down" "j": model.move; no command is returned.
KeyMove ==
  \E now \in SettingTimes, delta \in {-1, 1} :
    Event("move", now, s,
          [dash EXCEPT !.selected = ((@ - 1 + delta + Len(actions)) % Len(actions)) + 1], 0)

NextTimers ==
  \/ TimerFires
  \/ KeyEnter
  \/ KeySetting
  \/ KeyView
  \/ KeyMove

SpecTimers == InitTimers /\ [][NextTimers]_vars

\* C38 as stated: in the dashboard, after any sequence of tick and key
\* events, at most one tick timer is pending: handling an event never leaves
\* more timers outstanding than there were before it.
C38_AsStated == dash.pending <= 1

====
